---- MODULE Spec2Model ----
(***************************************************************************)
(* terraform-branch-deploy: the hook runner (hooks.py), the plan artifact  *)
(* checksum (artifacts.py), the terraform executor (executor.py) and the   *)
(* execute command that drives them (cli.py).                              *)
(*                                                                         *)
(* Two specifications share the variables:                                 *)
(*   SpecPhase  one call of HookRunner.run_phase, one loop iteration per   *)
(*              step, followed by the caller's has_blocking_failure;       *)
(*   Spec       one run of the execute command, one subprocess per step.   *)
(***************************************************************************)
EXTENDS Integers, Sequences, FiniteSets, TLC

VARIABLES
    \* ---- ambient deployment facts (CLI options, TF_BD_* environment) ----
    operation,          \* --operation / HookContext.operation
    is_rollback,        \* TF_BD_IS_ROLLBACK == "true" / HookContext.is_rollback
    \* ---- HookRunner ----
    hooks_config,       \* HookRunner.hooks_config: phase -> list of hooks, or None
    phase,              \* the phase run_phase was called with
    rp_pc,              \* position in run_phase: "call", "loop", "returned", "idle"
    hook_idx,           \* 1-based index of the hook the for loop is at
    results,            \* run_phase's local list `results`
    executed,           \* indices of the hooks a process was started for, in order
    returned,           \* the list run_phase returned (meaningful at "returned")
    procs,              \* the child processes of _run_hook, step by step, in order
    \* ---- execute ----
    pc,                 \* position in execute
    config_ok,          \* the config file loads and names the environment
    dry_run,            \* --dry-run
    working_dir,        \* resolved_working_dir, relative to the process cwd
    plan_checksum_env,  \* TF_BD_PLAN_CHECKSUM: <<>> when unset or empty, <<d>> otherwise
    fs,                 \* the plan file name in each directory: directory -> content
    commands,           \* the terraform commands run so far, in order
    verified,           \* directories whose plan file passed verify_checksum in this run
    outputs,            \* names written by set_github_output
    exit_code,          \* exit status of execute (meaningful at pc = "exited")
    \* ---- config.py: load_config and the resolve_* methods ----
    raw_config,         \* the parsed YAML document handed to model_validate
    config,             \* the TerraformBranchDeployConfig produced, or NoConfig
    config_error,       \* the message of the ValueError raised by validation, or ""
    resolved,           \* the last resolve_* call: environment, category, result
    cfg_pc,             \* "load", "loaded", "rejected", "resolved", "idle"
    \* ---- TerraformExecutor, called as cli.py execute constructs it ----
    resolved_args,      \* execute's locals: var_files, ..., parsed_extra_args
    executor,           \* the TerraformExecutor's fields, or NoExecutor
    ex_call,            \* the method called last and the plan file passed to it
    argv,               \* the terraform argument list of the last command built
    plan_result,        \* the PlanResult executor.plan returned, or NoResult
    ex_pc,              \* "construct", "ready", "done", "idle"
    gh_context,         \* use_tfcmt, github_token, repo, pr_number; tfcmt installed
    ex_run,             \* the args and env _run_command started the process with
    pr_effects,         \* what the started processes did to the pull request
    \* ---- artifacts.py, called on the files of fs ----
    art_recorded,       \* the checksum calculate_checksum returned, with its path
    art_last,           \* the last call of an artifacts.py function and its outcome
    \* ---- HookRunner._run_hook: the environment of hook processes ----
    context,            \* the HookContext run_phase was called with
    environ,            \* os.environ of the running process
    hook_envs,          \* Hook.env of each hook of the phase, in order
    proc_envs,          \* the env each hook process was started with, in order
    \* ---- HookResult predicates and has_blocking_failure ----
    evaluated,          \* the last predicate evaluated and its value
    \* ---- successive invocations of execute on the same files ----
    invocation,         \* number of the running invocation, from 1
    past_runs,          \* operation, commands and outcome of the invocations before
    \* ---- LifecycleManager.remove_non_sticky_lock ----
    lock_branches,      \* environment -> its lock branch: << >> or << lock.json >>
    lk_environment,     \* the environment remove_non_sticky_lock was called with
    lk_sticky,          \* the local `sticky` after str(sticky).lower()
    lk_calls,           \* the gh api calls made, with their outcome
    lk_pc               \* "get", "delete", "done", "idle"

vars == << operation, is_rollback, hooks_config, phase, rp_pc, hook_idx, results,
           executed, returned, procs, pc, config_ok, dry_run, working_dir,
           plan_checksum_env, fs, commands, verified, outputs, exit_code,
           raw_config, config, config_error, resolved, cfg_pc,
           resolved_args, executor, ex_call, argv, plan_result, ex_pc,
           gh_context, ex_run, pr_effects,
           art_recorded, art_last, context, environ, hook_envs, proc_envs,
           evaluated, invocation, past_runs,
           lock_branches, lk_environment, lk_sticky, lk_calls, lk_pc >>

hookVars == << hooks_config, phase, rp_pc, hook_idx, results, executed, returned,
              procs >>

execVars == << pc, config_ok, dry_run, working_dir, plan_checksum_env, fs,
               commands, verified, outputs, exit_code >>

cfgVars == << raw_config, config, config_error, resolved, cfg_pc >>

exVars == << resolved_args, executor, ex_call, argv, plan_result, ex_pc,
            gh_context, ex_run, pr_effects >>

artVars == << art_recorded, art_last >>

envVars == << context, environ, hook_envs, proc_envs >>

runVars == << invocation, past_runs >>

lockVars == << lock_branches, lk_environment, lk_sticky, lk_calls, lk_pc >>

auxVars == << artVars, envVars, evaluated, runVars, lockVars >>

(***************************************************************************)
(* Bounds                                                                  *)
(***************************************************************************)
\* longest hook list configured for one phase
MaxHooks == 3

\* longest list of paths or arguments in one category of the configuration
MaxListLen == 2

\* invocations of execute on the same working tree
MaxInvocations == 3

\* longest hook list of a phase whose hook processes are followed step by step
MaxRunHooks == 3

\* longest raw argument string given to the tokenizer
MaxRawLen == 5

\* longest commit sha handed to generate_artifact_name, in characters
MaxShaLen == 9

(***************************************************************************)
(* Hooks: configuration                                                    *)
(***************************************************************************)
Phases == {"pre-init", "post-init", "pre-plan", "post-plan", "post-apply"}

Conditions == {"always", "plan-only", "apply-only", "rollback-only"}

\* What the hook's shell command does when run with the hook's timeout.
Commands == {"exit 0", "exit 1", "sleep"}

Hooks == [condition : Conditions, fail_on_error : BOOLEAN, run : Commands]

Operations == {"plan", "apply", "rollback"}

\* HookRunner(hooks_config=None)
NoHooksConfig == << >>

HookLists(n) == UNION { [1..k -> Hooks] : k \in 0..n }

(***************************************************************************)
(* HookResult                                                              *)
(***************************************************************************)
TimeoutExitCode == 124

HookResult(i, ph, code, timedOut, skip, err) ==
    [name |-> i, phase |-> ph, exit_code |-> code, timed_out |-> timedOut,
     skipped |-> skip, stderr |-> err, skip_reason |-> << >>]

\* f"Condition '{hook.condition.value}' not met for operation '{context.operation}'"
SkipReason(hook, op) == << "Condition", hook.condition, "not met for operation", op >>

\* the HookResult run_phase builds for a hook whose condition is not met
SkippedResult(i, ph, hook, op) ==
    [HookResult(i, ph, 0, FALSE, TRUE, "") EXCEPT !.skip_reason = << SkipReason(hook, op) >>]

success(r) == r.exit_code = 0 /\ ~r.timed_out

\* mutant: a skipped result whose exit code is not 0 counts as failed
failed_ignores_skipped(r) == ~success(r)

failed(r) == ~success(r) /\ ~r.skipped

(***************************************************************************)
(* HookRunner                                                              *)
(***************************************************************************)
_get_hooks_for_phase(ph) ==
    IF hooks_config = NoHooksConfig THEN << >>
    ELSE IF ph \in DOMAIN hooks_config THEN hooks_config[ph] ELSE << >>

\* mutant: apply-only does not count a rollback as an apply
_should_run_hook_apply_strict(hook, op, rollback) ==
    CASE hook.condition = "always"        -> TRUE
      [] hook.condition = "plan-only"     -> op = "plan"
      [] hook.condition = "apply-only"    -> op = "apply"
      [] hook.condition = "rollback-only" -> rollback
      [] OTHER                            -> TRUE

\* mutant: the condition is not consulted, every hook runs
_should_run_hook_always(hook, op, rollback) == TRUE

_should_run_hook(hook, op, rollback) ==
    CASE hook.condition = "always"        -> TRUE
      [] hook.condition = "plan-only"     -> op = "plan"
      [] hook.condition = "apply-only"    -> op \in {"apply", "rollback"}
      [] hook.condition = "rollback-only" -> rollback
      [] OTHER                            -> TRUE

_run_hook(hook, ph, i) ==
    CASE hook.run = "exit 0" -> HookResult(i, ph, 0, FALSE, FALSE, "")
      [] hook.run = "exit 1" -> HookResult(i, ph, 1, FALSE, FALSE, "process stderr")
      [] hook.run = "sleep"  -> HookResult(i, ph, TimeoutExitCode, TRUE, FALSE, "timed out")

\* mutant: only the last result is looked at
has_blocking_failure_last(rs) == rs # << >> /\ failed(rs[Len(rs)])

has_blocking_failure(rs) == \E i \in 1..Len(rs) : failed(rs[i])

\* run_phase, up to the for loop: the two early returns.
RunPhaseCall ==
    /\ rp_pc = "call"
    /\ IF hooks_config = NoHooksConfig \/ _get_hooks_for_phase(phase) = << >>
       THEN /\ rp_pc' = "returned"
            /\ returned' = << >>
       ELSE /\ rp_pc' = "loop"
            /\ UNCHANGED returned
    /\ UNCHANGED << operation, is_rollback, hooks_config, phase, hook_idx, results,
                    executed >>
    /\ UNCHANGED procs
    /\ UNCHANGED execVars
    /\ UNCHANGED << cfgVars, exVars >>
    /\ UNCHANGED auxVars

\* One iteration of the for loop on a hook whose condition is not met.
RunPhaseSkip ==
    /\ rp_pc = "loop"
    /\ hook_idx <= Len(_get_hooks_for_phase(phase))
    /\ LET hook == _get_hooks_for_phase(phase)[hook_idx] IN
       /\ ~_should_run_hook(hook, operation, is_rollback)
       /\ results' = Append(results, SkippedResult(hook_idx, phase, hook, operation))
       /\ hook_idx' = hook_idx + 1
    /\ UNCHANGED << operation, is_rollback, hooks_config, phase, rp_pc, executed,
                    returned >>
    /\ UNCHANGED procs
    /\ UNCHANGED execVars
    /\ UNCHANGED << cfgVars, exVars >>
    /\ UNCHANGED auxVars

\* mutant: the loop never breaks
BreaksLoop_never(hook, result) == FALSE

\* mutant: the loop breaks on every failure, fail_on_error is not consulted
BreaksLoop_any(hook, result) == failed(result)

\* mutant: a timeout is reported but does not break the loop
BreaksLoop_not_timeout(hook, result) ==
    failed(result) /\ ~result.timed_out /\ hook.fail_on_error

\* The break of the for loop.
BreaksLoop(hook, result) == failed(result) /\ hook.fail_on_error

\* One iteration of the for loop on a hook whose condition is met.
RunPhaseRun ==
    /\ rp_pc = "loop"
    /\ hook_idx <= Len(_get_hooks_for_phase(phase))
    /\ LET hook   == _get_hooks_for_phase(phase)[hook_idx]
           result == _run_hook(hook, phase, hook_idx)
       IN
       /\ _should_run_hook(hook, operation, is_rollback)
       /\ executed' = Append(executed, hook_idx)
       /\ results' = Append(results, result)
       /\ IF BreaksLoop(hook, result)
          THEN /\ rp_pc' = "returned"
               /\ returned' = results'
               /\ UNCHANGED hook_idx
          ELSE /\ hook_idx' = hook_idx + 1
               /\ UNCHANGED << rp_pc, returned >>
    /\ UNCHANGED << operation, is_rollback, hooks_config, phase >>
    /\ UNCHANGED procs
    /\ UNCHANGED execVars
    /\ UNCHANGED << cfgVars, exVars >>
    /\ UNCHANGED auxVars

\* The for loop is exhausted: return results.
RunPhaseReturn ==
    /\ rp_pc = "loop"
    /\ hook_idx > Len(_get_hooks_for_phase(phase))
    /\ rp_pc' = "returned"
    /\ returned' = results
    /\ UNCHANGED << operation, is_rollback, hooks_config, phase, hook_idx, results,
                    executed >>
    /\ UNCHANGED procs
    /\ UNCHANGED execVars
    /\ UNCHANGED << cfgVars, exVars >>
    /\ UNCHANGED auxVars

(***************************************************************************)
(* Plan artifact: files and checksums                                      *)
(***************************************************************************)
\* longest plan file, in bytes
MaxFileLen == 1

Bytes == 0..1

Contents == UNION { [1..k -> Bytes] : k \in 0..MaxFileLen }

\* The process's current directory and a working directory below it.  The plan
\* file name tfplan-{environment}-{sha[:8]}.tfplan is the same in every step of
\* one run, so a path is identified by its directory.
Dirs == {".", "terraform/dev"}

\* Path(working_dir) / name, resolved against the process's current directory
PathIn(dir) == dir

\* Path(name), resolved against the process's current directory
PathInCwd == "."

Exists(path) == path \in DOMAIN fs

\* SHA-256 of the bytes, fed to the hash in order.  The digest is a function of
\* the bytes alone and distinct contents have distinct digests.
\* mutant: the digest depends on the length of the file only
calculate_checksum_length(data) == Len(data)

RECURSIVE calculate_checksum(_)
calculate_checksum(data) ==
    IF data = << >> THEN 1
    ELSE calculate_checksum(SubSeq(data, 1, Len(data) - 1)) * 3 + data[Len(data)] + 1

\* mutant: the comparison is dropped, any file verifies
verify_checksum_lenient(path, expected) == calculate_checksum(fs[path]) >= 0

verify_checksum(path, expected) == calculate_checksum(fs[path]) = expected

Digests == { calculate_checksum(c) : c \in Contents }

\* a well-formed digest that is the digest of no plan file of the model
ForeignDigest == calculate_checksum(<< >>) - 1

\* os.environ.get("TF_BD_PLAN_CHECKSUM"): << >> is unset or "" (both falsy)
ChecksumEnvValues == { << >> } \cup { << d >> : d \in Digests \cup {ForeignDigest} }

WriteFile(f, path, data) ==
    [q \in DOMAIN f \cup {path} |-> IF q = path THEN data ELSE f[q]]

FileSystems == UNION { [D -> Contents] : D \in SUBSET Dirs }

(***************************************************************************)
(* TerraformExecutor                                                       *)
(***************************************************************************)
\* A terraform invocation: the subcommand, the directory it ran in, and for
\* apply whether the plan file or var-files and apply arguments were passed
\* ("plan_file" / "direct") and the bytes of the plan file terraform read.
\* the exit status terraform returned is rc.
Command(tool, form, data, rc) ==
    [tool |-> tool, cwd |-> working_dir, form |-> form, data |-> data, rc |-> rc]

\* mutant: every exit status counts as success
CommandSuccess_any(rc) == rc >= 0

\* CommandResult.success
CommandSuccess(rc) == rc = 0

\* mutant: only exit status 0 is a success
PlanSuccess_zero_only(rc) == rc = 0

\* TerraformExecutor.plan: the reading of terraform plan -detailed-exitcode
PlanSuccess(rc) == rc \in {0, 2}

PlanHasChanges(rc) == rc = 2

\* The PlanResult TerraformExecutor.plan(out_file=Path(name)) returns when
\* terraform exited with rc and left the files f: exit_code is 0 for a success,
\* plan_file and checksum are None (<< >>) unless out_file.exists(), which
\* resolves the relative name against the process's current directory.
PlanResultOf(rc, f) ==
    [exit_code   |-> IF PlanSuccess(rc) THEN 0 ELSE rc,
     has_changes |-> PlanHasChanges(rc),
     plan_file   |-> IF PathInCwd \in DOMAIN f THEN << PathInCwd >> ELSE << >>,
     checksum    |-> IF PathInCwd \in DOMAIN f
                     THEN << calculate_checksum(f[PathInCwd]) >> ELSE << >>]

\* an invocation whose terraform apply was given the plan file
AppliedPlanFile(run) ==
    \E k \in 1..Len(run.commands) :
        run.commands[k].tool = "apply" /\ run.commands[k].form = "plan_file"

\* mutant: the plan file is passed to terraform apply by the first invocation
\* that applies it only
ApplyForm_first_apply_only(plan_file_given) ==
    IF plan_file_given /\ Exists(PathInCwd)
          /\ ~\E i \in 1..Len(past_runs) : AppliedPlanFile(past_runs[i])
    THEN "plan_file" ELSE "direct"

\* TerraformExecutor.apply: the arguments built for terraform apply.
ApplyForm(plan_file_given) ==
    IF plan_file_given /\ Exists(PathInCwd) THEN "plan_file" ELSE "direct"

SetOutput(name, value) ==
    [n \in DOMAIN outputs \cup {name} |-> IF n = name THEN value ELSE outputs[n]]

Exit(code) ==
    /\ pc' = "exited"
    /\ exit_code' = code

ExecOperations == Operations \cup {"destroy"}

(***************************************************************************)
(* execute                                                                 *)
(***************************************************************************)
\* execute, up to executor.init(): config loading and the dry-run return.
ExecLoad ==
    /\ pc = "start"
    /\ IF ~config_ok
       THEN /\ Exit(1)
            /\ UNCHANGED outputs
       ELSE /\ outputs' = [n \in {"working_directory", "var_files", "is_production"}
                              |-> "set"]
            /\ IF dry_run
               THEN Exit(0)
               ELSE /\ pc' = "init"
                    /\ UNCHANGED exit_code
    /\ UNCHANGED << config_ok, dry_run, working_dir, plan_checksum_env, fs, commands,
                    verified >>
    /\ UNCHANGED << operation, is_rollback >>
    /\ UNCHANGED hookVars
    /\ UNCHANGED << cfgVars, exVars >>
    /\ UNCHANGED auxVars

\* executor.init() and the dispatch on operation that follows it.
ExecInit ==
    /\ pc = "init"
    /\ \E rc \in {0, 1} :
          /\ commands' = Append(commands, Command("init", "-", << >>, rc))
          /\ IF ~CommandSuccess(rc)
             THEN /\ outputs' = SetOutput("failure_reason", "init_failed")
                  /\ Exit(1)
             ELSE IF operation = "plan"
             THEN /\ pc' = "plan"
                  /\ UNCHANGED << outputs, exit_code >>
             ELSE IF operation = "apply" \/ operation = "rollback"
             THEN /\ pc' = "apply"
                  /\ UNCHANGED << outputs, exit_code >>
             ELSE /\ outputs' = SetOutput("failure_reason", "unknown_operation")
                  /\ Exit(1)
    /\ UNCHANGED << config_ok, dry_run, working_dir, plan_checksum_env, fs, verified >>
    /\ UNCHANGED << operation, is_rollback >>
    /\ UNCHANGED hookVars
    /\ UNCHANGED << cfgVars, exVars >>
    /\ UNCHANGED auxVars

\* _handle_plan: executor.plan(out_file=Path(name)) and the outputs.
\* terraform runs in working_dir and writes -out there; out_file.exists() and
\* calculate_checksum(out_file) resolve the same relative name against the
\* process's current directory.
HandlePlan ==
    /\ pc = "plan"
    /\ \E rc \in {0, 1, 2}, written \in BOOLEAN, data \in Contents :
          /\ rc \in {0, 2} => written
          /\ commands' = Append(commands, Command("plan", "-", << >>, rc))
          /\ fs' = IF written THEN WriteFile(fs, PathIn(working_dir), data) ELSE fs
          /\ LET result    == PlanResultOf(rc, fs')
                 with_plan ==
                     IF result.plan_file # << >> /\ result.checksum # << >>
                     THEN [n \in DOMAIN outputs \cup {"plan_file", "plan_checksum", "has_changes"}
                             |-> CASE n = "plan_file"     -> result.plan_file[1]
                                   [] n = "plan_checksum" -> result.checksum[1]
                                   [] n = "has_changes"   -> result.has_changes
                                   [] OTHER               -> outputs[n]]
                     ELSE outputs
             IN
             IF CommandSuccess(result.exit_code)
             THEN /\ outputs' = with_plan
                  /\ Exit(0)
             ELSE /\ outputs' = [n \in DOMAIN with_plan \cup {"failure_reason"}
                                   |-> IF n = "failure_reason" THEN "plan_failed"
                                       ELSE with_plan[n]]
                  /\ Exit(1)
    /\ UNCHANGED << config_ok, dry_run, working_dir, plan_checksum_env, verified >>
    /\ UNCHANGED << operation, is_rollback >>
    /\ UNCHANGED hookVars
    /\ UNCHANGED << cfgVars, exVars >>
    /\ UNCHANGED auxVars

\* mutant: a missing plan file is never rejected, apply proceeds directly
ApplyBranch_never_rejects(found, rollback) ==
    IF found THEN "with_plan" ELSE "direct"

\* mutant: a plan file an earlier invocation applied counts as missing
ApplyBranch_single_use(found, rollback) ==
    IF found /\ ~\E i \in 1..Len(past_runs) : AppliedPlanFile(past_runs[i])
    THEN "with_plan"
    ELSE IF rollback THEN "direct"
    ELSE "no_plan"

\* _handle_apply: the if / elif / else on plan_file.exists() and is_rollback.
ApplyBranch(found, rollback) ==
    IF found THEN "with_plan"
    ELSE IF rollback THEN "direct"
    ELSE "no_plan"

\* _handle_apply up to the terraform subprocess: the plan file lookup and, in
\* _apply_with_plan, the checksum verification.
HandleApply ==
    /\ pc = "apply"
    /\ LET branch == ApplyBranch(Exists(PathIn(working_dir)), is_rollback) IN
       IF branch = "with_plan"
       THEN IF plan_checksum_env # << >>
            THEN IF ~verify_checksum(PathIn(working_dir), plan_checksum_env[1])
                 THEN /\ outputs' = SetOutput("failure_reason", "checksum_mismatch")
                      /\ Exit(1)
                      /\ UNCHANGED verified
                 ELSE /\ verified' = verified \cup {PathIn(working_dir)}
                      /\ pc' = "apply_with_plan"
                      /\ UNCHANGED << outputs, exit_code >>
            ELSE /\ pc' = "apply_with_plan"
                 /\ UNCHANGED << outputs, exit_code, verified >>
       ELSE IF branch = "direct"
       THEN /\ pc' = "apply_rollback"
            /\ UNCHANGED << outputs, exit_code, verified >>
       ELSE /\ outputs' = SetOutput("failure_reason", "no_plan")
            /\ Exit(1)
            /\ UNCHANGED verified
    /\ UNCHANGED << config_ok, dry_run, working_dir, plan_checksum_env, fs, commands >>
    /\ UNCHANGED << operation, is_rollback >>
    /\ UNCHANGED hookVars
    /\ UNCHANGED << cfgVars, exVars >>
    /\ UNCHANGED auxVars

\* executor.apply(plan_file=Path(plan_file.name)) in _apply_with_plan, and the
\* handling of its result.
ApplyWithPlan ==
    /\ pc = "apply_with_plan"
    /\ \E rc \in {0, 1} :
          /\ LET form == ApplyForm(TRUE) IN
             commands' = Append(commands,
                                Command("apply", form,
                                        IF form = "plan_file" THEN fs[PathIn(working_dir)]
                                        ELSE << >>, rc))
          /\ IF ~CommandSuccess(rc)
             THEN /\ outputs' = SetOutput("failure_reason", "apply_failed")
                  /\ Exit(1)
             ELSE /\ Exit(0)
                  /\ UNCHANGED outputs
    /\ UNCHANGED << config_ok, dry_run, working_dir, plan_checksum_env, fs, verified >>
    /\ UNCHANGED << operation, is_rollback >>
    /\ UNCHANGED hookVars
    /\ UNCHANGED << cfgVars, exVars >>
    /\ UNCHANGED auxVars

\* executor.apply() in the rollback branch of _handle_apply, and the handling
\* of its result.
ApplyRollback ==
    /\ pc = "apply_rollback"
    /\ \E rc \in {0, 1} :
          /\ commands' = Append(commands, Command("apply", ApplyForm(FALSE), << >>, rc))
          /\ IF ~CommandSuccess(rc)
             THEN /\ outputs' = SetOutput("failure_reason", "rollback_failed")
                  /\ Exit(1)
             ELSE /\ Exit(0)
                  /\ UNCHANGED outputs
    /\ UNCHANGED << config_ok, dry_run, working_dir, plan_checksum_env, fs, verified >>
    /\ UNCHANGED << operation, is_rollback >>
    /\ UNCHANGED hookVars
    /\ UNCHANGED << cfgVars, exVars >>
    /\ UNCHANGED auxVars

(***************************************************************************)
(* TerraformExecutor: the commands it builds                               *)
(***************************************************************************)
TF_INPUT_FALSE == "-input=false"

\* f"tfplan-{environment}-{sha[:8]}.tfplan" for the run's environment and sha
PlanFileName == "tfplan-{environment}-{sha[:8]}.tfplan"

VarFileNames == {"common.tfvars", "dev.tfvars"}

PlanArgTokens == {"-refresh=false", "-lock=false"}

SeqsUpTo(S, n) == UNION { [1..k -> S] : k \in 0..n }

\* execute's locals after the resolve_* calls and _parse_extra_args
ResolvedArgs ==
    [var_files         : SeqsUpTo(VarFileNames, MaxListLen),
     backend_configs   : SeqsUpTo({"backend.hcl"}, 1),
     init_args         : SeqsUpTo({"-upgrade"}, 1),
     plan_args         : SeqsUpTo(PlanArgTokens, MaxListLen),
     apply_args        : SeqsUpTo({"-parallelism=1"}, 1),
     parsed_extra_args : SeqsUpTo({"-target=module.base"}, 1)]

\* mutant: the extra arguments are put before the configured ones
WithExtraArgs_first(configured, parsed_extra_args) == parsed_extra_args \o configured

\* config.resolve_args(environment, ...) + parsed_extra_args
WithExtraArgs(configured, parsed_extra_args) == configured \o parsed_extra_args

NoExecutor == << >>

NoResult == << >>

\* TerraformExecutor(working_directory=..., var_files=..., ...) in execute
ConstructExecutor ==
    /\ ex_pc = "construct"
    /\ executor' =
          << [working_directory |-> working_dir,
              var_files         |-> resolved_args.var_files,
              backend_configs   |-> resolved_args.backend_configs,
              init_args         |-> resolved_args.init_args,
              plan_args         |-> WithExtraArgs(resolved_args.plan_args,
                                                  resolved_args.parsed_extra_args),
              apply_args        |-> WithExtraArgs(resolved_args.apply_args,
                                                  resolved_args.parsed_extra_args),
              github_token      |-> gh_context.github_token,
              repo              |-> gh_context.repo,
              pr_number         |-> gh_context.pr_number,
              use_tfcmt         |-> gh_context.use_tfcmt] >>
    /\ ex_pc' = "ready"
    /\ UNCHANGED << resolved_args, ex_call, argv, plan_result, gh_context, ex_run,
                    pr_effects >>
    /\ UNCHANGED << operation, is_rollback >>
    /\ UNCHANGED << hookVars, execVars, cfgVars >>
    /\ UNCHANGED auxVars

\* for v in values: args.extend([flag, v])
RECURSIVE Flags(_, _)
Flags(flag, values) ==
    IF values = << >> THEN << >>
    ELSE << flag, Head(values) >> \o Flags(flag, Tail(values))

\* the args list TerraformExecutor.init builds
InitArgv(ex) ==
    << "terraform", "init", TF_INPUT_FALSE >>
        \o Flags("-backend-config", ex.backend_configs) \o ex.init_args

\* the args list TerraformExecutor.plan builds
PlanArgv(ex, out_file) ==
    << "terraform", "plan", TF_INPUT_FALSE, "-detailed-exitcode" >>
        \o Flags("-var-file", ex.var_files) \o << "-out", out_file >> \o ex.plan_args

\* mutant: var-files and apply arguments are added in both branches
ApplyArgv_always_direct_args(ex, form, plan_file) ==
    << "terraform", "apply", TF_INPUT_FALSE, "-auto-approve" >>
        \o (IF form = "plan_file" THEN << plan_file >> ELSE << >>)
        \o Flags("-var-file", ex.var_files) \o ex.apply_args

\* the args list TerraformExecutor.apply builds
ApplyArgv(ex, form, plan_file) ==
    << "terraform", "apply", TF_INPUT_FALSE, "-auto-approve" >>
        \o (IF form = "plan_file" THEN << plan_file >>
            ELSE Flags("-var-file", ex.var_files) \o ex.apply_args)

\* a str | None field is truthy when it is set and not empty; the strings of
\* the GitHub context are kept as sequences of parts, "" being << >>
TruthyStr(o) == o # << >> /\ o[1] # << >>

\* an int | None field is truthy when it is set and not 0
TruthyInt(o) == o # << >> /\ o[1] # 0

\* str(n) for the pull request numbers of the model
StrInt(n) == IF n = 0 THEN "0" ELSE "42"

\* repo.split("/"): the repository name is kept as its parts and separators
RECURSIVE Split(_)
Split(parts) ==
    IF parts = << >> THEN << << >> >>
    ELSE LET rest == Split(Tail(parts)) IN
         IF Head(parts) = "/" THEN << << >> >> \o rest
         ELSE << << Head(parts) >> \o Head(rest) >> \o Tail(rest)

\* a name of one part
Joined(parts) == IF parts = << >> THEN "" ELSE parts[1]

\* what _run_command hands to subprocess.run: args, and env on top of os.environ
_run_command(args, env) == << [args |-> args, env |-> env] >>

NoEnv == << >>

\* self._tfcmt_available(): tfcmt --version ran and exited with 0
_tfcmt_available == gh_context.tfcmt_installed

\* mutant: the command is wrapped whenever a token and a repository are set
_run_with_tfcmt_without_pr_check(ex, op, tf_args) ==
    IF ~TruthyStr(ex.github_token) \/ ~TruthyStr(ex.repo)
    THEN _run_command(tf_args, NoEnv)
    ELSE _run_command(
             << "tfcmt", "-owner", Joined(Split(ex.repo[1])[1]),
                "-repo", Joined(Split(ex.repo[1])[2]),
                "-pr", IF ex.pr_number = << >> THEN "None" ELSE StrInt(ex.pr_number[1]),
                op, "--" >> \o tf_args,
             [k \in {"GITHUB_TOKEN"} |-> ex.github_token[1]])

\* TerraformExecutor._run_with_tfcmt
_run_with_tfcmt(ex, op, tf_args) ==
    IF ~TruthyStr(ex.github_token) \/ ~TruthyStr(ex.repo) \/ ~TruthyInt(ex.pr_number)
    THEN _run_command(tf_args, NoEnv)
    ELSE _run_command(
             << "tfcmt", "-owner", Joined(Split(ex.repo[1])[1]),
                "-repo", Joined(Split(ex.repo[1])[2]),
                "-pr", StrInt(ex.pr_number[1]), op, "--" >> \o tf_args,
             [k \in {"GITHUB_TOKEN"} |-> ex.github_token[1]])

\* plan and apply: "Use tfcmt if available"
RunTerraform(ex, op, args) ==
    IF ex.use_tfcmt /\ _tfcmt_available
    THEN _run_with_tfcmt(ex, op, args)
    ELSE _run_command(args, NoEnv)

\* tfcmt runs the command after "--" and posts its result to the pull request
\* named by -owner, -repo and -pr; terraform posts nothing.
ProcessEffects(run) ==
    IF run[1].args[1] = "tfcmt"
    THEN << [kind  |-> "comment",
             owner |-> run[1].args[3],
             repo  |-> run[1].args[5],
             pr    |-> run[1].args[7],
             about |-> run[1].args[8]] >>
    ELSE << >>

\* the exit statuses terraform plan -detailed-exitcode is run with
PlanExitCodes == 0..3

\* executor.init()
ExecutorInit ==
    /\ ex_pc = "ready"
    /\ \E rc \in {0, 1} :
          commands' = Append(commands, Command("init", "-", << >>, rc))
    /\ ex_call' = << "init" >>
    /\ argv' = InitArgv(executor[1])
    /\ ex_run' = _run_command(argv', NoEnv)
    /\ pr_effects' = pr_effects \o ProcessEffects(ex_run')
    /\ ex_pc' = "done"
    /\ UNCHANGED << resolved_args, executor, plan_result, gh_context >>
    /\ UNCHANGED << pc, config_ok, dry_run, working_dir, plan_checksum_env, fs,
                    verified, outputs, exit_code >>
    /\ UNCHANGED << operation, is_rollback >>
    /\ UNCHANGED << hookVars, cfgVars >>
    /\ UNCHANGED auxVars

\* executor.plan(out_file=Path(name)): terraform runs in working_directory and
\* writes -out there.
ExecutorPlan ==
    /\ ex_pc = "ready"
    /\ \E rc \in PlanExitCodes, written \in BOOLEAN, data \in Contents :
          /\ rc \in {0, 2} => written
          /\ commands' = Append(commands, Command("plan", "-", << >>, rc))
          /\ fs' = IF written THEN WriteFile(fs, PathIn(working_dir), data) ELSE fs
          /\ plan_result' = << PlanResultOf(rc, fs') >>
    /\ ex_call' = << "plan", PlanFileName >>
    /\ argv' = PlanArgv(executor[1], PlanFileName)
    /\ ex_run' = RunTerraform(executor[1], "plan", argv')
    /\ pr_effects' = pr_effects \o ProcessEffects(ex_run')
    /\ ex_pc' = "done"
    /\ UNCHANGED << resolved_args, executor, gh_context >>
    /\ UNCHANGED << pc, config_ok, dry_run, working_dir, plan_checksum_env,
                    verified, outputs, exit_code >>
    /\ UNCHANGED << operation, is_rollback >>
    /\ UNCHANGED << hookVars, cfgVars >>
    /\ UNCHANGED auxVars

\* executor.apply(plan_file=Path(name)) and executor.apply()
ExecutorApply ==
    /\ ex_pc = "ready"
    /\ \E plan_file_given \in BOOLEAN, rc \in {0, 1} :
          LET form == ApplyForm(plan_file_given) IN
          /\ commands' = Append(commands, Command("apply", form, << >>, rc))
          /\ ex_call' = IF plan_file_given THEN << "apply", PlanFileName >>
                        ELSE << "apply" >>
          /\ argv' = ApplyArgv(executor[1], form, PlanFileName)
    /\ ex_run' = RunTerraform(executor[1], "apply", argv')
    /\ pr_effects' = pr_effects \o ProcessEffects(ex_run')
    /\ ex_pc' = "done"
    /\ UNCHANGED << resolved_args, executor, plan_result, gh_context >>
    /\ UNCHANGED << pc, config_ok, dry_run, working_dir, plan_checksum_env, fs,
                    verified, outputs, exit_code >>
    /\ UNCHANGED << operation, is_rollback >>
    /\ UNCHANGED << hookVars, cfgVars >>
    /\ UNCHANGED auxVars

(***************************************************************************)
(* config.py: the configuration document, its validation and resolution    *)
(***************************************************************************)
EnvNames == {"dev", "prod"}

\* the entries of a list of paths or arguments
Entries == {"first", "second"}

Lists == UNION { [1..k -> Entries] : k \in 0..MaxListLen }

PathCategories == {"var_files", "backend_configs"}

ArgCategories == {"init_args", "plan_args", "apply_args"}

Categories == PathCategories \cup ArgCategories

\* An optional field is << >> (None) or << value >>.
Optional(S) == { << >> } \cup { << v >> : v \in S }

PathsConfig == [inherit : BOOLEAN, paths : Lists]

ArgsConfig == [inherit : BOOLEAN, args : Lists]

CategoryConfig(cat) == IF cat \in PathCategories THEN PathsConfig ELSE ArgsConfig

\* EnvironmentConfig / DefaultsConfig with every category absent
NoCategories == [c \in Categories |-> << >>]

\* EnvironmentConfig / DefaultsConfig records in which category cat alone may
\* be present
CategoryConfigs(cat) ==
    { [c \in Categories |-> IF c = cat THEN o ELSE << >>] :
          o \in Optional(CategoryConfig(cat)) }

\* The environments maps over a set of names in which at most one environment
\* configures the category.
EnvironmentMaps(cat) ==
    UNION { { [e \in K |-> IF e = own THEN ec ELSE NoCategories] :
                  own \in K, ec \in CategoryConfigs(cat) } : K \in SUBSET EnvNames }
    \cup { << >> }

EnvNameLists == UNION { [1..k -> EnvNames] : k \in 0..2 }

RawConfigs(cat) ==
    [default_environment     : EnvNames,
     production_environments : EnvNameLists,
     environments            : EnvironmentMaps(cat),
     defaults                : Optional(CategoryConfigs(cat))]

NoConfig == << >>

NoError == << >>

\* mutant: only default-environment is checked
validate_environment_references_default_only(raw) ==
    IF raw.default_environment \notin DOMAIN raw.environments
    THEN << "default-environment", "not defined in environments" >>
    ELSE NoError

\* The model validator: the ValueError it raises, as the parts of its message,
\* or NoError when it returns self.
validate_environment_references(raw) ==
    LET env_names == DOMAIN raw.environments IN
    IF raw.default_environment \notin env_names
    THEN << "default-environment", "not defined in environments" >>
    ELSE IF \E i \in 1..Len(raw.production_environments) :
                raw.production_environments[i] \notin env_names
    THEN << "production-environment", "not defined in environments" >>
    ELSE NoError

\* load_config on a non-empty document: model_validate returns the config
\* object or raises.
LoadConfig ==
    /\ cfg_pc = "load"
    /\ LET error == validate_environment_references(raw_config) IN
       IF error = NoError
       THEN /\ config' = << raw_config >>
            /\ cfg_pc' = "loaded"
            /\ UNCHANGED config_error
       ELSE /\ config_error' = error
            /\ cfg_pc' = "rejected"
            /\ UNCHANGED config
    /\ UNCHANGED << raw_config, resolved >>
    /\ UNCHANGED << operation, is_rollback >>
    /\ UNCHANGED << hookVars, execVars, exVars >>
    /\ UNCHANGED auxVars

\* mutant: the environment's inherit flag is not consulted
should_inherit_always(env_category) == TRUE

\* should_inherit as the three resolve methods compute it
should_inherit(env_category) ==
    IF env_category # << >> THEN env_category[1].inherit ELSE TRUE

resolve_var_files(cfg, environment) ==
    LET env_config == cfg.environments[environment]
        inherited  == IF /\ should_inherit(env_config.var_files)
                         /\ cfg.defaults # << >>
                         /\ cfg.defaults[1].var_files # << >>
                      THEN cfg.defaults[1].var_files[1].paths ELSE << >>
        own        == IF env_config.var_files # << >>
                      THEN env_config.var_files[1].paths ELSE << >>
    IN inherited \o own

resolve_backend_configs(cfg, environment) ==
    LET env_config == cfg.environments[environment]
        inherited  == IF /\ should_inherit(env_config.backend_configs)
                         /\ cfg.defaults # << >>
                         /\ cfg.defaults[1].backend_configs # << >>
                      THEN cfg.defaults[1].backend_configs[1].paths ELSE << >>
        own        == IF env_config.backend_configs # << >>
                      THEN env_config.backend_configs[1].paths ELSE << >>
    IN inherited \o own

resolve_args(cfg, environment, arg_type) ==
    LET env_config   == cfg.environments[environment]
        env_args     == env_config[arg_type]
        default_args == IF cfg.defaults # << >> THEN cfg.defaults[1][arg_type] ELSE << >>
        inherited    == IF should_inherit(env_args) /\ default_args # << >>
                        THEN default_args[1].args ELSE << >>
        own          == IF env_args # << >> THEN env_args[1].args ELSE << >>
    IN inherited \o own

\* The record of one resolve_* call; found is false when get_environment raised.
Resolved(environment, category, found, value) ==
    [environment |-> environment, category |-> category, found |-> found,
     value |-> value]

NoResolved == Resolved("", "", FALSE, << >>)

ResolveVarFiles ==
    /\ cfg_pc = "loaded"
    /\ \E environment \in EnvNames :
          resolved' =
              IF environment \in DOMAIN config[1].environments
              THEN Resolved(environment, "var_files", TRUE,
                            resolve_var_files(config[1], environment))
              ELSE Resolved(environment, "var_files", FALSE, << >>)
    /\ cfg_pc' = "resolved"
    /\ UNCHANGED << raw_config, config, config_error >>
    /\ UNCHANGED << operation, is_rollback >>
    /\ UNCHANGED << hookVars, execVars, exVars >>
    /\ UNCHANGED auxVars

ResolveBackendConfigs ==
    /\ cfg_pc = "loaded"
    /\ \E environment \in EnvNames :
          resolved' =
              IF environment \in DOMAIN config[1].environments
              THEN Resolved(environment, "backend_configs", TRUE,
                            resolve_backend_configs(config[1], environment))
              ELSE Resolved(environment, "backend_configs", FALSE, << >>)
    /\ cfg_pc' = "resolved"
    /\ UNCHANGED << raw_config, config, config_error >>
    /\ UNCHANGED << operation, is_rollback >>
    /\ UNCHANGED << hookVars, execVars, exVars >>
    /\ UNCHANGED auxVars

ResolveArgs ==
    /\ cfg_pc = "loaded"
    /\ \E environment \in EnvNames, arg_type \in ArgCategories :
          resolved' =
              IF environment \in DOMAIN config[1].environments
              THEN Resolved(environment, arg_type, TRUE,
                            resolve_args(config[1], environment, arg_type))
              ELSE Resolved(environment, arg_type, FALSE, << >>)
    /\ cfg_pc' = "resolved"
    /\ UNCHANGED << raw_config, config, config_error >>
    /\ UNCHANGED << operation, is_rollback >>
    /\ UNCHANGED << hookVars, execVars, exVars >>
    /\ UNCHANGED auxVars

(***************************************************************************)
(* artifacts.py: the functions as called on a path                         *)
(***************************************************************************)
\* the outcome of a call: a returned value or a raised exception
Returned(value) == [status |-> "returned", value |-> value]

Raised(exception) == [status |-> "raised", value |-> exception]

\* calculate_checksum(file_path): open(file_path, "rb") raises when no file is
\* at the path, otherwise the digest of the bytes is returned.
calculate_checksum_call(path) ==
    IF Exists(path) THEN Returned(calculate_checksum(fs[path]))
    ELSE Raised("FileNotFoundError")

\* verify_checksum(file_path, expected): the exception of calculate_checksum
\* propagates, otherwise the comparison is returned.
verify_checksum_call(path, expected) ==
    LET actual == calculate_checksum_call(path) IN
    IF actual.status = "raised" THEN actual
    ELSE Returned(verify_checksum(path, expected))

\* the file a call found at its path: << >> for none, << content >> otherwise
FileAt(path) == IF Exists(path) THEN << fs[path] >> ELSE << >>

\* A call, the file it found at its path and its outcome.
ArtifactCall(function, path, expected, outcome) ==
    [function |-> function, path |-> path, expected |-> expected,
     seen |-> IF path \in Dirs THEN FileAt(path) ELSE << >>, outcome |-> outcome]

NoCall == ArtifactCall("", "", << >>, Returned(FALSE))

NoRecorded == << >>

\* calculate_checksum(path), the caller keeping the checksum it returned
ArtCalculate ==
    /\ \E path \in Dirs :
          LET outcome == calculate_checksum_call(path) IN
          /\ art_last' = ArtifactCall("calculate_checksum", path, << >>, outcome)
          /\ art_recorded' =
                IF outcome.status = "returned"
                THEN << [path |-> path, checksum |-> outcome.value, content |-> fs[path]] >>
                ELSE art_recorded
    /\ UNCHANGED << operation, is_rollback >>
    /\ UNCHANGED << hookVars, execVars, cfgVars, exVars >>
    /\ UNCHANGED << envVars, evaluated, runVars >>
    /\ UNCHANGED lockVars

\* verify_checksum(path, expected)
ArtVerify ==
    /\ \E path \in Dirs, expected \in Digests \cup {ForeignDigest} :
          art_last' = ArtifactCall("verify_checksum", path, << expected >>,
                                   verify_checksum_call(path, expected))
    /\ UNCHANGED art_recorded
    /\ UNCHANGED << operation, is_rollback >>
    /\ UNCHANGED << hookVars, execVars, cfgVars, exVars >>
    /\ UNCHANGED << envVars, evaluated, runVars >>
    /\ UNCHANGED lockVars

\* The file at a path is written or overwritten between two calls (a new plan,
\* a restored cache entry, a corrupted copy).
ArtFileChanged ==
    /\ \E path \in Dirs, data \in Contents :
          /\ path \in DOMAIN fs => fs[path] # data
          /\ fs' = WriteFile(fs, path, data)
    /\ UNCHANGED << pc, config_ok, dry_run, working_dir, plan_checksum_env,
                    commands, verified, outputs, exit_code >>
    /\ UNCHANGED << operation, is_rollback >>
    /\ UNCHANGED << hookVars, cfgVars, exVars >>
    /\ UNCHANGED auxVars

\* sha[:8]
ShaPrefixLen == 8

ShaChars == {"a", "b"}

Shas == UNION { [1..k -> ShaChars] : k \in 0..MaxShaLen }

\* Python's s[:n]
SliceTo(s, n) == SubSeq(s, 1, IF Len(s) < n THEN Len(s) ELSE n)

\* mutant: the sha is not shortened
generate_artifact_name_full_sha(environment, sha) ==
    << "tfplan-", environment, "-" >> \o sha \o << ".tfplan" >>

\* f"tfplan-{environment}-{sha[:8]}.tfplan", as the pieces of the string
generate_artifact_name(environment, sha) ==
    << "tfplan-", environment, "-" >> \o SliceTo(sha, ShaPrefixLen) \o << ".tfplan" >>

\* generate_artifact_name(environment, sha)
ArtName ==
    /\ art_last = NoCall
    /\ \E environment \in EnvNames, sha \in Shas :
          art_last' = ArtifactCall("generate_artifact_name", environment, sha,
                                   Returned(generate_artifact_name(environment, sha)))
    /\ UNCHANGED art_recorded
    /\ UNCHANGED << operation, is_rollback >>
    /\ UNCHANGED << hookVars, execVars, cfgVars, exVars >>
    /\ UNCHANGED << envVars, evaluated, runVars >>
    /\ UNCHANGED lockVars

(***************************************************************************)
(* HookContext.to_env and the environment of a hook process                *)
(***************************************************************************)
\* HookContext.plan_file: None, or a string that may be empty
PlanFileFields == { << >>, << "" >>, << PlanFileName >> }

\* HookContext.has_changes: None, or a bool
HasChangesFields == { << >>, << TRUE >>, << FALSE >> }

HookContexts ==
    [phase         : {"pre-init", "post-plan"},
     environment   : {"dev"},
     operation     : {"plan"},
     is_rollback   : BOOLEAN,
     sha           : {"abc123def456"},
     ref           : {"feature"},
     actor         : {"octocat"},
     pr_number     : {"42"},
     params        : {""},
     working_dir   : {"terraform/dev"},
     is_production : BOOLEAN,
     plan_file     : PlanFileFields,
     has_changes   : HasChangesFields]

\* str(b) for a bool
PyStr(b) == IF b THEN "True" ELSE "False"

\* s.lower(), on the strings str(bool) gives
Lower(s) ==
    CASE s = "True"  -> "true"
      [] s = "False" -> "false"
      [] OTHER       -> s

\* dict.update: the entries of n replace and extend those of m
Update(m, n) ==
    [k \in DOMAIN m \cup DOMAIN n |-> IF k \in DOMAIN n THEN n[k] ELSE m[k]]

Entry(key, value) == [k \in {key} |-> value]

\* mutant: the plan file key is always written, empty when plan_file is None
to_env_plan_file_always(ctx) ==
    LET base ==
          [k \in {"TF_BD_PHASE", "TF_BD_ENVIRONMENT", "TF_BD_OPERATION",
                  "TF_BD_IS_ROLLBACK", "TF_BD_SHA", "TF_BD_REF", "TF_BD_ACTOR",
                  "TF_BD_PR_NUMBER", "TF_BD_PARAMS", "TF_BD_WORKING_DIR",
                  "TF_BD_IS_PRODUCTION"} |->
              CASE k = "TF_BD_PHASE"         -> ctx.phase
                [] k = "TF_BD_ENVIRONMENT"   -> ctx.environment
                [] k = "TF_BD_OPERATION"     -> ctx.operation
                [] k = "TF_BD_IS_ROLLBACK"   -> Lower(PyStr(ctx.is_rollback))
                [] k = "TF_BD_SHA"           -> ctx.sha
                [] k = "TF_BD_REF"           -> ctx.ref
                [] k = "TF_BD_ACTOR"         -> ctx.actor
                [] k = "TF_BD_PR_NUMBER"     -> ctx.pr_number
                [] k = "TF_BD_PARAMS"        -> ctx.params
                [] k = "TF_BD_WORKING_DIR"   -> ctx.working_dir
                [] k = "TF_BD_IS_PRODUCTION" -> Lower(PyStr(ctx.is_production))]
        with_plan_file ==
          Update(base, Entry("TF_BD_PLAN_FILE",
                             IF ctx.plan_file # << >> THEN ctx.plan_file[1] ELSE ""))
    IN IF ctx.has_changes # << >>
       THEN Update(with_plan_file,
                   Entry("TF_BD_HAS_CHANGES", Lower(PyStr(ctx.has_changes[1]))))
       ELSE with_plan_file

\* HookContext.to_env
to_env(ctx) ==
    LET base ==
          [k \in {"TF_BD_PHASE", "TF_BD_ENVIRONMENT", "TF_BD_OPERATION",
                  "TF_BD_IS_ROLLBACK", "TF_BD_SHA", "TF_BD_REF", "TF_BD_ACTOR",
                  "TF_BD_PR_NUMBER", "TF_BD_PARAMS", "TF_BD_WORKING_DIR",
                  "TF_BD_IS_PRODUCTION"} |->
              CASE k = "TF_BD_PHASE"         -> ctx.phase
                [] k = "TF_BD_ENVIRONMENT"   -> ctx.environment
                [] k = "TF_BD_OPERATION"     -> ctx.operation
                [] k = "TF_BD_IS_ROLLBACK"   -> Lower(PyStr(ctx.is_rollback))
                [] k = "TF_BD_SHA"           -> ctx.sha
                [] k = "TF_BD_REF"           -> ctx.ref
                [] k = "TF_BD_ACTOR"         -> ctx.actor
                [] k = "TF_BD_PR_NUMBER"     -> ctx.pr_number
                [] k = "TF_BD_PARAMS"        -> ctx.params
                [] k = "TF_BD_WORKING_DIR"   -> ctx.working_dir
                [] k = "TF_BD_IS_PRODUCTION" -> Lower(PyStr(ctx.is_production))]
        with_plan_file ==
          IF ctx.plan_file # << >>
          THEN Update(base, Entry("TF_BD_PLAN_FILE", ctx.plan_file[1]))
          ELSE base
    IN IF ctx.has_changes # << >>
       THEN Update(with_plan_file,
                   Entry("TF_BD_HAS_CHANGES", Lower(PyStr(ctx.has_changes[1]))))
       ELSE with_plan_file

Evaluated(kind, input, value) == [kind |-> kind, input |-> input, value |-> value]

\* context.to_env()
ContextToEnv ==
    /\ context # << >>
    /\ evaluated' = Evaluated("to_env", << >>, to_env(context))
    /\ UNCHANGED << operation, is_rollback >>
    /\ UNCHANGED << hookVars, execVars, cfgVars, exVars >>
    /\ UNCHANGED << artVars, envVars, runVars >>
    /\ UNCHANGED lockVars

\* os.environ of the deployment process
Environs ==
    UNION { [K -> {"ambient"}] : K \in SUBSET {"PATH", "TF_BD_OPERATION", "DEPLOY_TOKEN"} }

\* Hook.env: None, or a mapping that may be empty
HookEnvs ==
    Optional(UNION { [K -> {"hook"}] : K \in SUBSET {"TF_BD_OPERATION", "DEPLOY_TOKEN"} })

\* the Hook.env of the hooks of a phase
HookEnvLists == { es \in SeqsUpTo(HookEnvs, 2) : es # << >> }

\* mutant: the context is applied after hook.env and wins over it
HookProcessEnv_context_last(ambient, ctx, hook_env) ==
    LET env == IF hook_env # << >> THEN Update(ambient, hook_env[1]) ELSE ambient
    IN Update(env, to_env(ctx))

\* _run_hook: env = os.environ.copy(); env.update(context.to_env());
\* if hook.env: env.update(hook.env)
HookProcessEnv(ambient, ctx, hook_env) ==
    LET env == Update(ambient, to_env(ctx))
    IN IF hook_env # << >> /\ DOMAIN hook_env[1] # {}
       THEN Update(env, hook_env[1]) ELSE env

\* _run_hook for the next hook of the phase, up to subprocess.run(env=env)
StartHookProcess ==
    /\ context # << >>
    /\ Len(proc_envs) < Len(hook_envs)
    /\ proc_envs' = Append(proc_envs,
                           HookProcessEnv(environ, context, hook_envs[Len(proc_envs) + 1]))
    /\ UNCHANGED << context, environ, hook_envs >>
    /\ UNCHANGED << operation, is_rollback >>
    /\ UNCHANGED << hookVars, execVars, cfgVars, exVars >>
    /\ UNCHANGED << artVars, evaluated, runVars >>
    /\ UNCHANGED lockVars

(***************************************************************************)
(* HookResult.success, HookResult.failed and has_blocking_failure, called  *)
(* on any result the dataclass can hold                                    *)
(***************************************************************************)
\* the HookResult objects the dataclass admits as the i-th of a list
HookResults(i) ==
    { HookResult(i, "pre-plan", code, timedOut, skip, "") :
        code \in {0, 1, TimeoutExitCode}, timedOut \in BOOLEAN, skip \in BOOLEAN }

HookResultLists == UNION { [1..k -> HookResults(1)] : k \in 0..MaxHooks }

\* result.success and result.failed
EvalResult ==
    /\ evaluated = << >>
    /\ \E r \in HookResults(1) :
          evaluated' = Evaluated("result", << r >>,
                                 [success |-> success(r), failed |-> failed(r)])
    /\ UNCHANGED << operation, is_rollback >>
    /\ UNCHANGED << hookVars, execVars, cfgVars, exVars >>
    /\ UNCHANGED << artVars, envVars, runVars >>
    /\ UNCHANGED lockVars

\* runner.has_blocking_failure(results)
EvalBlockingFailure ==
    /\ evaluated = << >>
    /\ \E rs \in HookResultLists :
          evaluated' = Evaluated("has_blocking_failure", rs, has_blocking_failure(rs))
    /\ UNCHANGED << operation, is_rollback >>
    /\ UNCHANGED << hookVars, execVars, cfgVars, exVars >>
    /\ UNCHANGED << artVars, envVars, runVars >>
    /\ UNCHANGED lockVars

(***************************************************************************)
(* Successive invocations of execute on the same working tree              *)
(***************************************************************************)
\* what an invocation of execute did and how it ended
Run(op, cmds, code, outs, files) ==
    [operation |-> op, commands |-> cmds, exit_code |-> code, outputs |-> outs,
     fs |-> files]

\* execute has exited and the apply command is invoked, in a new process, for
\* the same environment and sha, with the same environment variables, on the
\* files the invocations before left.
Reinvoke ==
    /\ pc = "exited"
    /\ invocation < MaxInvocations
    /\ past_runs' = Append(past_runs, Run(operation, commands, exit_code, outputs, fs))
    /\ invocation' = invocation + 1
    /\ operation' = "apply"
    /\ pc' = "start"
    /\ commands' = << >>
    /\ verified' = {}
    /\ outputs' = << >>
    /\ exit_code' = 0
    /\ UNCHANGED << config_ok, dry_run, working_dir, plan_checksum_env, fs >>
    /\ UNCHANGED is_rollback
    /\ UNCHANGED << hookVars, cfgVars, exVars >>
    /\ UNCHANGED << artVars, envVars, evaluated >>
    /\ UNCHANGED lockVars

(***************************************************************************)
(* _run_hook step by step: the child process of each hook                  *)
(***************************************************************************)
\* What a hook's command does when started with the hook's timeout: the
\* process exits by itself, runs until it is killed, or cannot be started
\* (missing working directory, launch failure).
Behaviours == Commands \cup {"launch error"}

RunHooks ==
    [condition : {"always", "apply-only"}, fail_on_error : BOOLEAN, run : Behaviours]

RunHookLists == UNION { [1..k -> RunHooks] : k \in 0..MaxRunHooks }

\* how subprocess.run(...) ended: a CompletedProcess, or an exception
Completed(returncode) ==
    [kind |-> "completed", returncode |-> returncode, message |-> ""]

TimeoutExpired == [kind |-> "TimeoutExpired", returncode |-> 0, message |-> ""]

LaunchError ==
    [kind |-> "Exception", returncode |-> 0,
     message |-> "[Errno 2] No such file or directory"]

\* mutant: every result carries the name of the first hook of the phase
_run_hook_result_first_name(i, ph, outcome) ==
    CASE outcome.kind = "completed" ->
            Returned(HookResult(1, ph, outcome.returncode, FALSE, FALSE,
                                IF outcome.returncode = 0 THEN "" ELSE "process stderr"))
      [] outcome.kind = "TimeoutExpired" ->
            Returned(HookResult(1, ph, TimeoutExitCode, TRUE, FALSE, "timed out"))
      [] OTHER ->
            Returned(HookResult(1, ph, 1, FALSE, FALSE, outcome.message))

\* mutant: a timeout is reported as a plain failure
_run_hook_result_timeout_as_error(i, ph, outcome) ==
    CASE outcome.kind = "completed" ->
            Returned(HookResult(i, ph, outcome.returncode, FALSE, FALSE,
                                IF outcome.returncode = 0 THEN "" ELSE "process stderr"))
      [] outcome.kind = "TimeoutExpired" ->
            Returned(HookResult(i, ph, 1, FALSE, FALSE, "timed out"))
      [] OTHER ->
            Returned(HookResult(i, ph, 1, FALSE, FALSE, outcome.message))

\* mutant: only the timeout is caught, any other exception propagates
_run_hook_result_timeout_only(i, ph, outcome) ==
    CASE outcome.kind = "completed" ->
            Returned(HookResult(i, ph, outcome.returncode, FALSE, FALSE,
                                IF outcome.returncode = 0 THEN "" ELSE "process stderr"))
      [] outcome.kind = "TimeoutExpired" ->
            Returned(HookResult(i, ph, TimeoutExitCode, TRUE, FALSE, "timed out"))
      [] OTHER ->
            Raised(outcome.message)

\* _run_hook: the try / except around subprocess.run
_run_hook_result(i, ph, outcome) ==
    CASE outcome.kind = "completed" ->
            Returned(HookResult(i, ph, outcome.returncode, FALSE, FALSE,
                                IF outcome.returncode = 0 THEN "" ELSE "process stderr"))
      [] outcome.kind = "TimeoutExpired" ->
            Returned(HookResult(i, ph, TimeoutExitCode, TRUE, FALSE, "timed out"))
      [] OTHER ->
            Returned(HookResult(i, ph, 1, FALSE, FALSE, outcome.message))

\* mutant: subprocess.run is called without a timeout
HasTimeout_never(hook) == FALSE

\* subprocess.run(..., timeout=hook.timeout): Hook.timeout is a number of
\* seconds (default 600)
HasTimeout(hook) == TRUE

Process(i, state) == [hook |-> i, state |-> state]

\* the state of the last process is changed
Ended(state) == [procs EXCEPT ![Len(procs)].state = state]

\* _run_hook returns or raises, and the for loop of run_phase goes on
HookFinished(hook, outcome) ==
    LET r == _run_hook_result(hook_idx, phase, outcome) IN
    IF r.status = "raised"
    THEN /\ rp_pc' = "raised"
         /\ UNCHANGED << results, returned, hook_idx >>
    ELSE /\ results' = Append(results, r.value)
         /\ IF BreaksLoop(hook, r.value)
            THEN /\ rp_pc' = "returned"
                 /\ returned' = results'
                 /\ UNCHANGED hook_idx
            ELSE /\ rp_pc' = "loop"
                 /\ hook_idx' = hook_idx + 1
                 /\ UNCHANGED returned

\* One iteration of the for loop on a hook whose condition is met, up to
\* subprocess.run starting the child process or failing to start it.
HookStart ==
    /\ rp_pc = "loop"
    /\ hook_idx <= Len(_get_hooks_for_phase(phase))
    /\ LET hook == _get_hooks_for_phase(phase)[hook_idx] IN
       /\ _should_run_hook(hook, operation, is_rollback)
       /\ IF hook.run = "launch error"
          THEN /\ procs' = Append(procs, Process(hook_idx, "not started"))
               /\ HookFinished(hook, LaunchError)
               /\ UNCHANGED executed
          ELSE /\ procs' = Append(procs, Process(hook_idx, "running"))
               /\ executed' = Append(executed, hook_idx)
               /\ rp_pc' = "wait"
               /\ UNCHANGED << results, returned, hook_idx >>
    /\ UNCHANGED << operation, is_rollback, hooks_config, phase >>
    /\ UNCHANGED execVars
    /\ UNCHANGED << cfgVars, exVars >>
    /\ UNCHANGED auxVars

\* The child process exits by itself within the timeout.
HookExit ==
    /\ rp_pc = "wait"
    /\ LET hook == _get_hooks_for_phase(phase)[hook_idx] IN
       /\ hook.run \in {"exit 0", "exit 1"}
       /\ procs' = Ended("exited")
       /\ HookFinished(hook, Completed(IF hook.run = "exit 0" THEN 0 ELSE 1))
    /\ UNCHANGED << operation, is_rollback, hooks_config, phase, executed >>
    /\ UNCHANGED execVars
    /\ UNCHANGED << cfgVars, exVars >>
    /\ UNCHANGED auxVars

\* The timeout expires on a child process that does not exit: subprocess.run
\* kills it and raises TimeoutExpired.
HookTimeout ==
    /\ rp_pc = "wait"
    /\ LET hook == _get_hooks_for_phase(phase)[hook_idx] IN
       /\ hook.run = "sleep"
       /\ HasTimeout(hook)
       /\ procs' = Ended("killed")
       /\ HookFinished(hook, TimeoutExpired)
    /\ UNCHANGED << operation, is_rollback, hooks_config, phase, executed >>
    /\ UNCHANGED execVars
    /\ UNCHANGED << cfgVars, exVars >>
    /\ UNCHANGED auxVars

(***************************************************************************)
(* LifecycleManager.remove_non_sticky_lock                                 *)
(***************************************************************************)
\* lock.json on a lock branch: the "sticky" key is absent, true or false
LockFiles == [sticky : { << >>, << TRUE >>, << FALSE >> }]

\* the branch {environment}-branch-deploy-lock: absent, or holding lock.json
LockBranches == { << >> } \cup { << f >> : f \in LockFiles }

\* content_json.get("sticky", "false") followed by str(sticky).lower()
StickyText(content) ==
    IF content = << >> \/ content[1].sticky = << >> THEN "false"
    ELSE Lower(PyStr(content[1].sticky[1]))

GhCall(method, ref, ok, before) ==
    [method |-> method, ref |-> ref, ok |-> ok, lock |-> before]

\* remove_non_sticky_lock, step 1: _gh_api_get_content of lock.json on the lock
\* branch.  A failed gh call (_run_gh returns None) and an undecodable answer
\* both give {}, and an exception gives sticky = "false".
LockGetContent ==
    /\ lk_pc = "get"
    /\ \E ok \in BOOLEAN :
          LET branch  == lock_branches[lk_environment]
              content == IF ok /\ branch # << >> THEN branch ELSE << >>
          IN /\ (branch = << >> => ~ok)
             /\ lk_calls' = Append(lk_calls, GhCall("GET", lk_environment, ok, branch))
             /\ lk_sticky' = StickyText(content)
             /\ lk_pc' = IF lk_sticky' = "true" THEN "done" ELSE "delete"
    /\ UNCHANGED << lock_branches, lk_environment >>
    /\ UNCHANGED << operation, is_rollback >>
    /\ UNCHANGED << hookVars, execVars, cfgVars, exVars >>
    /\ UNCHANGED << artVars, envVars, evaluated, runVars >>

\* remove_non_sticky_lock, step 2: gh api --method DELETE on the lock branch;
\* a failure is ignored.
LockDelete ==
    /\ lk_pc = "delete"
    /\ \E ok \in BOOLEAN :
          LET branch == lock_branches[lk_environment] IN
          /\ (branch = << >> => ~ok)
          /\ lk_calls' = Append(lk_calls, GhCall("DELETE", lk_environment, ok, branch))
          /\ lock_branches' = IF ok THEN [lock_branches EXCEPT ![lk_environment] = << >>]
                              ELSE lock_branches
    /\ lk_pc' = "done"
    /\ UNCHANGED << lk_environment, lk_sticky >>
    /\ UNCHANGED << operation, is_rollback >>
    /\ UNCHANGED << hookVars, execVars, cfgVars, exVars >>
    /\ UNCHANGED << artVars, envVars, evaluated, runVars >>

(***************************************************************************)
(* _ArgTokenizer                                                           *)
(***************************************************************************)
\* characters of a raw argument string: the five the tokenizer tells apart
\* and one ordinary character
Chars == { " ", "'", "\"", "[", "]", "a" }

RawStrings == UNION { [1..n -> Chars] : n \in 0..MaxRawLen }

\* _ArgTokenizer.__init__
NewTokenizer ==
    [args |-> << >>, current |-> << >>,
     in_single |-> FALSE, in_double |-> FALSE, in_bracket |-> 0]

Max(a, b) == IF a >= b THEN a ELSE b

_in_quotes(self) == self.in_single \/ self.in_double

_flush_current(self) ==
    IF self.current # << >>
    THEN [self EXCEPT !.args = Append(self.args, self.current), !.current = << >>]
    ELSE self

_process_char_unclamped(self, char) ==
    IF char = "'" /\ ~self.in_double
    THEN [self EXCEPT !.in_single = ~self.in_single,
                      !.current = Append(self.current, char)]
    ELSE IF char = "\"" /\ ~self.in_single
    THEN [self EXCEPT !.in_double = ~self.in_double,
                      !.current = Append(self.current, char)]
    ELSE IF char = "[" /\ ~_in_quotes(self)
    THEN [self EXCEPT !.in_bracket = self.in_bracket + 1,
                      !.current = Append(self.current, char)]
    ELSE IF char = "]" /\ ~_in_quotes(self)
    THEN [self EXCEPT !.in_bracket = self.in_bracket - 1,
                      !.current = Append(self.current, char)]
    ELSE IF char = " " /\ ~_in_quotes(self) /\ self.in_bracket = 0
    THEN _flush_current(self)
    ELSE [self EXCEPT !.current = Append(self.current, char)]

_process_char(self, char) ==
    IF char = "'" /\ ~self.in_double
    THEN [self EXCEPT !.in_single = ~self.in_single,
                      !.current = Append(self.current, char)]
    ELSE IF char = "\"" /\ ~self.in_single
    THEN [self EXCEPT !.in_double = ~self.in_double,
                      !.current = Append(self.current, char)]
    ELSE IF char = "[" /\ ~_in_quotes(self)
    THEN [self EXCEPT !.in_bracket = self.in_bracket + 1,
                      !.current = Append(self.current, char)]
    ELSE IF char = "]" /\ ~_in_quotes(self)
    THEN [self EXCEPT !.in_bracket = Max(0, self.in_bracket - 1),
                      !.current = Append(self.current, char)]
    ELSE IF char = " " /\ ~_in_quotes(self) /\ self.in_bracket = 0
    THEN _flush_current(self)
    ELSE [self EXCEPT !.current = Append(self.current, char)]

\* the tokenizer after the first n characters of raw (for char in raw)
RECURSIVE Processed(_, _)
Processed(raw, n) ==
    IF n = 0 THEN NewTokenizer
    ELSE _process_char(Processed(raw, n - 1), raw[n])

tokenize(raw) == _flush_current(Processed(raw, Len(raw))).args

\* tokenizer.tokenize(raw), with in_bracket as it stood after each character
EvalTokenize ==
    /\ evaluated = << >>
    /\ \E raw \in RawStrings :
          evaluated' = Evaluated("tokenize", raw,
              [tokens |-> tokenize(raw),
               depths |-> [n \in 1..Len(raw) |-> Processed(raw, n).in_bracket]])
    /\ UNCHANGED << operation, is_rollback >>
    /\ UNCHANGED << hookVars, execVars, cfgVars, exVars >>
    /\ UNCHANGED << artVars, envVars, runVars >>
    /\ UNCHANGED lockVars

(***************************************************************************)
(* Specifications                                                          *)
(***************************************************************************)
ExecIdle ==
    /\ pc = "idle"
    /\ config_ok = TRUE
    /\ dry_run = FALSE
    /\ working_dir = "."
    /\ plan_checksum_env = << >>
    /\ fs = << >>
    /\ commands = << >>
    /\ verified = {}
    /\ outputs = << >>
    /\ exit_code = 0

ConfigIdle ==
    /\ raw_config = << >>
    /\ config = NoConfig
    /\ config_error = NoError
    /\ resolved = NoResolved
    /\ cfg_pc = "idle"

ExecutorIdle ==
    /\ resolved_args = << >>
    /\ executor = NoExecutor
    /\ ex_call = << >>
    /\ argv = << >>
    /\ plan_result = NoResult
    /\ ex_pc = "idle"
    /\ gh_context = << >>
    /\ ex_run = << >>
    /\ pr_effects = << >>

ArtifactsIdle ==
    /\ art_recorded = NoRecorded
    /\ art_last = NoCall

EnvIdle ==
    /\ context = << >>
    /\ environ = << >>
    /\ hook_envs = << >>
    /\ proc_envs = << >>

EvalIdle == evaluated = << >>

RunsIdle ==
    /\ invocation = 1
    /\ past_runs = << >>

LockIdle ==
    /\ lock_branches = << >>
    /\ lk_environment = ""
    /\ lk_sticky = ""
    /\ lk_calls = << >>
    /\ lk_pc = "idle"

HooksIdle ==
    /\ hooks_config = NoHooksConfig
    /\ phase = "pre-init"
    /\ rp_pc = "idle"
    /\ hook_idx = 1
    /\ results = << >>
    /\ executed = << >>
    /\ returned = << >>
    /\ procs = << >>

\* run_phase is explored on lists of up to MaxHooks hooks for pre-init; the
\* phase only selects the list, and the other phases get lists of at most one.
\* _should_run_hook treats the operations apply and rollback alike, so the
\* longer lists are drawn for plan and apply, and rollback gets lists of at
\* most one.
InitPhase ==
    /\ operation \in Operations
    /\ is_rollback \in BOOLEAN
    /\ phase \in Phases
    /\ hooks_config \in
          { NoHooksConfig } \cup
          { [p \in Phases |-> IF p = phase THEN hs ELSE << >>] :
                hs \in HookLists(IF phase = "pre-init" /\ operation # "rollback"
                                 THEN MaxHooks ELSE 1) }
    /\ rp_pc = "call"
    /\ hook_idx = 1
    /\ results = << >>
    /\ executed = << >>
    /\ returned = << >>
    /\ procs = << >>
    /\ ExecIdle
    /\ ConfigIdle
    /\ ExecutorIdle
    /\ ArtifactsIdle
    /\ EnvIdle
    /\ EvalIdle
    /\ RunsIdle
    /\ LockIdle

NextPhase == RunPhaseCall \/ RunPhaseSkip \/ RunPhaseRun \/ RunPhaseReturn

SpecPhase == InitPhase /\ [][NextPhase]_vars

\* The hooks a deployment is configured with: none, or one hook in every phase.
ExecHookConfigs ==
    { NoHooksConfig } \cup { [p \in Phases |-> << h >>] : h \in Hooks }

Init ==
    /\ operation \in ExecOperations
    /\ is_rollback \in BOOLEAN
    /\ hooks_config \in ExecHookConfigs
    /\ phase = "pre-init"
    /\ rp_pc = "idle"
    /\ hook_idx = 1
    /\ results = << >>
    /\ executed = << >>
    /\ returned = << >>
    /\ procs = << >>
    /\ pc = "start"
    /\ config_ok \in BOOLEAN
    /\ dry_run \in BOOLEAN
    /\ working_dir \in Dirs
    /\ plan_checksum_env \in ChecksumEnvValues
    /\ fs \in FileSystems
    /\ commands = << >>
    /\ verified = {}
    /\ outputs = << >>
    /\ exit_code = 0
    /\ ConfigIdle
    /\ ExecutorIdle
    /\ ArtifactsIdle
    /\ EnvIdle
    /\ EvalIdle
    /\ RunsIdle
    /\ LockIdle

Next ==
    \/ ExecLoad
    \/ ExecInit
    \/ HandlePlan
    \/ HandleApply
    \/ ApplyWithPlan
    \/ ApplyRollback

Spec == Init /\ [][Next]_vars

\* load_config on a document, then resolve_* calls on the config it produced.
InitConfig ==
    /\ \E cat \in Categories : raw_config \in RawConfigs(cat)
    /\ config = NoConfig
    /\ config_error = NoError
    /\ resolved = NoResolved
    /\ cfg_pc = "load"
    /\ operation = "plan"
    /\ is_rollback = FALSE
    /\ HooksIdle
    /\ ExecIdle
    /\ ExecutorIdle
    /\ ArtifactsIdle
    /\ EnvIdle
    /\ EvalIdle
    /\ RunsIdle
    /\ LockIdle

NextConfig == LoadConfig \/ ResolveVarFiles \/ ResolveBackendConfigs \/ ResolveArgs

SpecConfig == InitConfig /\ [][NextConfig]_vars

\* The files the executor's methods are called on: the plan file may be
\* present, empty, in either directory.
ExecutorFileSystems == { f \in FileSystems : \A d \in DOMAIN f : f[d] = << >> }

\* GITHUB_TOKEN and GITHUB_REPOSITORY: unset, empty or set
GitHubTokens == { << >>, << << >> >>, << << "ghs_token" >> >> }

GitHubRepos == { << >>, << << >> >>, << << "octo", "/", "infra" >> >> }

\* pr_number: None, 0 or the number of a pull request
PrNumbers == { << >>, << 0 >>, << 42 >> }

GitHubContexts ==
    [use_tfcmt       : BOOLEAN,
     github_token    : GitHubTokens,
     repo            : GitHubRepos,
     pr_number       : PrNumbers,
     tfcmt_installed : BOOLEAN]

\* a run outside a pull request, on a runner without tfcmt
NoGitHubContext ==
    [use_tfcmt |-> TRUE, github_token |-> << >>, repo |-> << >>,
     pr_number |-> << >>, tfcmt_installed |-> FALSE]

\* a run for pull request 42 on a runner with tfcmt
PullRequestContext ==
    [use_tfcmt |-> TRUE, github_token |-> << << "ghs_token" >> >>,
     repo |-> << << "octo", "/", "infra" >> >>, pr_number |-> << 42 >>,
     tfcmt_installed |-> TRUE]

\* no var-files, backend configs or arguments configured or passed
NoResolvedArgs ==
    [var_files |-> << >>, backend_configs |-> << >>, init_args |-> << >>,
     plan_args |-> << >>, apply_args |-> << >>, parsed_extra_args |-> << >>]

\* One TerraformExecutor, constructed as execute constructs it, and one call of
\* init, plan or apply on it.
InitExecutor ==
    /\ \/ /\ resolved_args \in ResolvedArgs
          /\ gh_context \in {NoGitHubContext, PullRequestContext}
       \/ /\ resolved_args = NoResolvedArgs
          /\ gh_context \in GitHubContexts
    /\ ex_run = << >>
    /\ pr_effects = << >>
    /\ executor = NoExecutor
    /\ ex_call = << >>
    /\ argv = << >>
    /\ plan_result = NoResult
    /\ ex_pc = "construct"
    /\ operation = "plan"
    /\ is_rollback = FALSE
    /\ HooksIdle
    /\ pc = "idle"
    /\ config_ok = TRUE
    /\ dry_run = FALSE
    /\ working_dir \in Dirs
    /\ plan_checksum_env = << >>
    /\ fs \in ExecutorFileSystems
    /\ commands = << >>
    /\ verified = {}
    /\ outputs = << >>
    /\ exit_code = 0
    /\ ConfigIdle
    /\ ArtifactsIdle
    /\ EnvIdle
    /\ EvalIdle
    /\ RunsIdle
    /\ LockIdle

NextExecutor == ConstructExecutor \/ ExecutorInit \/ ExecutorPlan \/ ExecutorApply

SpecExecutor == InitExecutor /\ [][NextExecutor]_vars

\* Calls of calculate_checksum and verify_checksum on the plan file paths,
\* with the files changing between the calls.
InitArtifacts ==
    /\ fs \in FileSystems
    /\ ArtifactsIdle
    /\ operation = "plan"
    /\ is_rollback = FALSE
    /\ HooksIdle
    /\ pc = "idle"
    /\ config_ok = TRUE
    /\ dry_run = FALSE
    /\ working_dir = "."
    /\ plan_checksum_env = << >>
    /\ commands = << >>
    /\ verified = {}
    /\ outputs = << >>
    /\ exit_code = 0
    /\ ConfigIdle
    /\ ExecutorIdle
    /\ EnvIdle
    /\ EvalIdle
    /\ RunsIdle
    /\ LockIdle

NextArtifacts == ArtCalculate \/ ArtVerify \/ ArtFileChanged

SpecArtifacts == InitArtifacts /\ [][NextArtifacts]_vars

\* One call of generate_artifact_name.
InitName ==
    /\ ArtifactsIdle
    /\ operation = "plan"
    /\ is_rollback = FALSE
    /\ HooksIdle
    /\ ExecIdle
    /\ ConfigIdle
    /\ ExecutorIdle
    /\ EnvIdle
    /\ EvalIdle
    /\ RunsIdle
    /\ LockIdle

NextName == ArtName

SpecName == InitName /\ [][NextName]_vars

\* The hooks of one phase are started one after the other by one process.
InitHookEnv ==
    /\ context \in HookContexts
    /\ environ \in Environs
    /\ hook_envs \in HookEnvLists
    /\ proc_envs = << >>
    /\ operation = "plan"
    /\ is_rollback = FALSE
    /\ HooksIdle
    /\ ExecIdle
    /\ ConfigIdle
    /\ ExecutorIdle
    /\ ArtifactsIdle
    /\ EvalIdle
    /\ RunsIdle
    /\ LockIdle

NextHookEnv == ContextToEnv \/ StartHookProcess

SpecHookEnv == InitHookEnv /\ [][NextHookEnv]_vars

\* The predicates are evaluated on results and lists of results.
InitResults ==
    /\ operation = "plan"
    /\ is_rollback = FALSE
    /\ HooksIdle
    /\ ExecIdle
    /\ ConfigIdle
    /\ ExecutorIdle
    /\ ArtifactsIdle
    /\ EnvIdle
    /\ EvalIdle
    /\ RunsIdle
    /\ LockIdle

NextResults == EvalResult \/ EvalBlockingFailure

SpecResults == InitResults /\ [][NextResults]_vars

\* A plan or an apply is invoked, and apply is invoked again after it.
InitReapply ==
    /\ operation \in {"plan", "apply"}
    /\ is_rollback \in BOOLEAN
    /\ hooks_config = NoHooksConfig
    /\ phase = "pre-init"
    /\ rp_pc = "idle"
    /\ hook_idx = 1
    /\ results = << >>
    /\ executed = << >>
    /\ returned = << >>
    /\ procs = << >>
    /\ pc = "start"
    /\ config_ok = TRUE
    /\ dry_run = FALSE
    /\ working_dir \in Dirs
    /\ plan_checksum_env \in ChecksumEnvValues
    /\ fs \in FileSystems
    /\ commands = << >>
    /\ verified = {}
    /\ outputs = << >>
    /\ exit_code = 0
    /\ ConfigIdle
    /\ ExecutorIdle
    /\ ArtifactsIdle
    /\ EnvIdle
    /\ EvalIdle
    /\ RunsIdle
    /\ LockIdle

NextReapply ==
    \/ ExecLoad
    \/ ExecInit
    \/ HandlePlan
    \/ HandleApply
    \/ ApplyWithPlan
    \/ ApplyRollback
    \/ Reinvoke

SpecReapply == InitReapply /\ [][NextReapply]_vars

\* An apply step for a plan file whose checksum the plan step recorded and
\* handed over in TF_BD_PLAN_CHECKSUM, while another process writes the file.
InitConcurrent ==
    /\ operation = "apply"
    /\ is_rollback = FALSE
    /\ HooksIdle
    /\ pc = "start"
    /\ config_ok = TRUE
    /\ dry_run = FALSE
    /\ working_dir \in Dirs
    /\ fs \in { f \in FileSystems : PathIn(working_dir) \in DOMAIN f }
    /\ art_recorded = << [path     |-> PathIn(working_dir),
                          checksum |-> calculate_checksum(fs[PathIn(working_dir)]),
                          content  |-> fs[PathIn(working_dir)]] >>
    /\ art_last = NoCall
    /\ plan_checksum_env = << art_recorded[1].checksum >>
    /\ commands = << >>
    /\ verified = {}
    /\ outputs = << >>
    /\ exit_code = 0
    /\ ConfigIdle
    /\ ExecutorIdle
    /\ EnvIdle
    /\ EvalIdle
    /\ RunsIdle
    /\ LockIdle

NextConcurrent ==
    \/ ExecLoad
    \/ ExecInit
    \/ HandleApply
    \/ ApplyWithPlan
    \/ ArtFileChanged

SpecConcurrent == InitConcurrent /\ [][NextConcurrent]_vars

\* One run_phase call under operation plan, the hook processes followed from
\* their start to their end.
InitRunHook ==
    /\ operation = "plan"
    /\ is_rollback = FALSE
    /\ phase = "pre-plan"
    /\ hooks_config \in
          { NoHooksConfig } \cup
          { [p \in Phases |-> IF p = phase THEN hs ELSE << >>] : hs \in RunHookLists }
    /\ rp_pc = "call"
    /\ hook_idx = 1
    /\ results = << >>
    /\ executed = << >>
    /\ returned = << >>
    /\ procs = << >>
    /\ ExecIdle
    /\ ConfigIdle
    /\ ExecutorIdle
    /\ ArtifactsIdle
    /\ EnvIdle
    /\ EvalIdle
    /\ RunsIdle
    /\ LockIdle

NextRunHook ==
    \/ RunPhaseCall
    \/ RunPhaseSkip
    \/ HookStart
    \/ HookExit
    \/ HookTimeout
    \/ RunPhaseReturn

SpecRunHook == InitRunHook /\ [][NextRunHook]_vars

\* One call of remove_non_sticky_lock on a repository with a lock branch, or
\* none, for each environment.
InitLock ==
    /\ lock_branches \in [EnvNames -> LockBranches]
    /\ lk_environment \in EnvNames
    /\ lk_sticky = ""
    /\ lk_calls = << >>
    /\ lk_pc = "get"
    /\ operation = "plan"
    /\ is_rollback = FALSE
    /\ HooksIdle
    /\ ExecIdle
    /\ ConfigIdle
    /\ ExecutorIdle
    /\ ArtifactsIdle
    /\ EnvIdle
    /\ EvalIdle
    /\ RunsIdle

NextLock == LockGetContent \/ LockDelete

SpecLock == InitLock /\ [][NextLock]_vars

\* _parse_extra_args hands one raw string to a new tokenizer.
InitTokenize ==
    /\ operation = "plan"
    /\ is_rollback = FALSE
    /\ HooksIdle
    /\ ExecIdle
    /\ ConfigIdle
    /\ ExecutorIdle
    /\ ArtifactsIdle
    /\ EnvIdle
    /\ EvalIdle
    /\ RunsIdle
    /\ LockIdle

NextTokenize == EvalTokenize

SpecTokenize == InitTokenize /\ [][NextTokenize]_vars

\* run_phase is one thread of a running program, a child process that exits by
\* itself does exit, and the timeout of subprocess.run does expire.
SpecRunHookFair == SpecRunHook /\ WF_vars(NextRunHook)

(***************************************************************************)
(* Properties of run_phase (checked under SpecPhase)                       *)
(***************************************************************************)
PhaseHooks == _get_hooks_for_phase(phase)

\* result i of the phase is a failure of a hook with fail_on_error=true
BlockingFailureAt(rs, i) ==
    i \in 1..Len(rs) /\ failed(rs[i]) /\ PhaseHooks[i].fail_on_error

\* result i of the phase is a failure of a hook with fail_on_error=false
NonBlockingFailureAt(rs, i) ==
    i \in 1..Len(rs) /\ failed(rs[i]) /\ ~PhaseHooks[i].fail_on_error

NoHookExecutedAfter(i) == \A k \in 1..Len(executed) : executed[k] <= i

C4_StopsAtBlockingFailure ==
    \A i \in 1..Len(results) :
        BlockingFailureAt(results, i) =>
            /\ Len(results) = i
            /\ NoHookExecutedAfter(i)
            /\ rp_pc = "returned"
            /\ returned = results

C4_ResultsOnlyAppended ==
    \A i \in 1..Len(results) : i <= Len(results') /\ results'[i] = results[i]

\* C4: once a hook with fail_on_error=true has a failed result, run_phase has
\* returned: that result is the last of the returned list, no hook after it was
\* executed, and the results collected before it are the ones returned (results
\* are only ever appended, never rewritten).
C4_BlockingFailureStopsPhase ==
    [] C4_StopsAtBlockingFailure /\ [][C4_ResultsOnlyAppended]_vars

\* C4 witness: run_phase returned after a blocking failure of the second hook of
\* a list of three, with the first hook's result collected before it.
C4_Witness ==
    /\ rp_pc = "returned"
    /\ Len(PhaseHooks) = 3
    /\ BlockingFailureAt(returned, 2)
    /\ Len(returned) = 2

\* C5 (as stated): when run_phase has returned and some result is a failure of a
\* hook with fail_on_error=false, a result is present for every hook of the phase.
C5_AllLaterHooksPresent ==
    rp_pc = "returned" =>
        \A i \in 1..Len(returned) :
            NonBlockingFailureAt(returned, i) => Len(returned) = Len(PhaseHooks)

\* C5 (amended): a failure of a hook with fail_on_error=false does not stop the
\* phase: the loop moves on to the next hook, whose result is present in the
\* returned list, and the list ends only with the last configured hook or with
\* a failure of a hook with fail_on_error=true.
C5_NonBlockingFailureContinues ==
    \A i \in 1..Len(results) :
        NonBlockingFailureAt(results, i) =>
            /\ rp_pc = "loop" => hook_idx > i
            /\ rp_pc = "returned" =>
                  /\ returned = results
                  /\ i < Len(PhaseHooks) => Len(returned) > i
                  /\ \/ Len(returned) = Len(PhaseHooks)
                     \/ BlockingFailureAt(returned, Len(returned))

\* C5 witness: run_phase returned a result for the hook that follows a
\* non-blocking failure.
C5_Witness ==
    /\ rp_pc = "returned"
    /\ \E i \in 1..Len(returned) :
          NonBlockingFailureAt(returned, i) /\ i < Len(returned)

\* C6: when every failed result of the list run_phase returned comes from a
\* hook with fail_on_error=false, has_blocking_failure of that list is false.
C6_NonBlockingFailureDoesNotHalt ==
    rp_pc = "returned" =>
        ( (\A i \in 1..Len(returned) : failed(returned[i]) => ~PhaseHooks[i].fail_on_error)
          => ~has_blocking_failure(returned) )

\* C7 (as stated): after a hook timed out, no later hook of the phase is
\* executed, whatever the hook's fail_on_error.
C7_TimeoutStopsPhase ==
    \A i \in 1..Len(results) : results[i].timed_out => NoHookExecutedAfter(i)

\* C7 (amended): a timeout is a failed result; with fail_on_error=true it stops
\* the phase (run_phase returns with it as the last result and executes no
\* later hook), with fail_on_error=false the loop goes on to the next hook.
C7_TimeoutStopsPhaseWhenBlocking ==
    \A i \in 1..Len(results) :
        results[i].timed_out =>
            /\ failed(results[i])
            /\ IF PhaseHooks[i].fail_on_error
               THEN /\ Len(results) = i
                    /\ NoHookExecutedAfter(i)
                    /\ rp_pc = "returned"
               ELSE /\ rp_pc = "loop" => hook_idx > i
                    /\ (rp_pc = "returned" /\ i < Len(PhaseHooks)) => Len(returned) > i

\* C7 witness: a hook with fail_on_error=true timed out before the end of the
\* list and run_phase returned.
C7_Witness ==
    /\ rp_pc = "returned"
    /\ \E i \in 1..Len(returned) :
          /\ returned[i].timed_out
          /\ PhaseHooks[i].fail_on_error
          /\ i < Len(PhaseHooks)

\* The condition matrix: the (condition, operation, is_rollback) triples under
\* which a hook runs.
ConditionMatrix ==
    ({"always"} \X {"plan", "apply", "rollback"} \X BOOLEAN)
        \cup ({"plan-only"} \X {"plan"} \X BOOLEAN)
        \cup ({"apply-only"} \X {"apply", "rollback"} \X BOOLEAN)
        \cup ({"rollback-only"} \X {"plan", "apply", "rollback"} \X {TRUE})

ApplyCommands == { i \in 1..Len(commands) : commands[i].tool = "apply" }

InitSucceeded ==
    \E i \in 1..Len(commands) : commands[i].tool = "init" /\ commands[i].rc = 0

\* TF_BD_PLAN_CHECKSUM is supplied and is not the checksum of the plan file
\* the apply step looks up.
ChecksumMismatch ==
    /\ Exists(PathIn(working_dir))
    /\ plan_checksum_env # << >>
    /\ plan_checksum_env[1] # calculate_checksum(fs[PathIn(working_dir)])

FailedWith(reason) ==
    /\ pc = "exited"
    /\ exit_code # 0
    /\ "failure_reason" \in DOMAIN outputs
    /\ outputs["failure_reason"] = reason

\* C1: in an apply or rollback run whose expected checksum is supplied and
\* differs from the plan file's, terraform apply is never run, and once the
\* apply step has been reached the run ends with a non-zero exit and the
\* checksum-mismatch failure_reason.
C1_MismatchBlocksApply ==
    (operation \in {"apply", "rollback"} /\ ChecksumMismatch) =>
        /\ ApplyCommands = {}
        /\ pc \notin {"apply_with_plan", "apply_rollback"}
        /\ (pc = "exited" /\ InitSucceeded) => FailedWith("checksum_mismatch")

\* C1 witness: an apply run reached the apply step with a mismatching checksum
\* and has ended.
C1_Witness ==
    /\ operation \in {"apply", "rollback"}
    /\ ChecksumMismatch
    /\ InitSucceeded
    /\ pc = "exited"

\* C2: every terraform apply that was given the plan file ran after
\* verify_checksum accepted that file.
C2_PlanAppliedOnlyVerified ==
    \A i \in ApplyCommands :
        commands[i].form = "plan_file" => PathIn(working_dir) \in verified

\* C3: in a run that is not a rollback, every terraform apply is given the plan
\* file; the direct form (var-files and apply arguments) is never run.
C3_NoDirectApplyUnlessRollback ==
    (operation = "apply" /\ ~is_rollback) =>
        \A i \in ApplyCommands : commands[i].form = "plan_file"

\* C11: in an apply run that is not a rollback and finds no plan file for
\* (environment, sha), terraform apply is never run, and once the apply step
\* has been reached the run ends with a non-zero exit and the run-plan-first
\* failure_reason, which is not the checksum-mismatch one.
C11_MissingPlanRejected ==
    (operation = "apply" /\ ~is_rollback /\ ~Exists(PathIn(working_dir))) =>
        /\ ApplyCommands = {}
        /\ pc \notin {"apply_with_plan", "apply_rollback"}
        /\ (pc = "exited" /\ InitSucceeded) =>
              /\ FailedWith("no_plan")
              /\ outputs["failure_reason"] # "checksum_mismatch"

\* C11 witness: an apply run that is not a rollback reached the apply step
\* with no plan file and has ended.
C11_Witness ==
    /\ operation = "apply"
    /\ ~is_rollback
    /\ ~Exists(PathIn(working_dir))
    /\ InitSucceeded
    /\ pc = "exited"

\* C12: a run with operation rollback that finds no plan file runs terraform
\* apply directly and does not end with the missing-plan failure.
C12_RollbackAppliesWithoutPlan ==
    (operation = "rollback" /\ ~Exists(PathIn(working_dir)) /\ InitSucceeded
        /\ pc = "exited") =>
        /\ \E i \in ApplyCommands : commands[i].form = "direct"
        /\ ~FailedWith("no_plan")

\* C13: the plan artifact is one file in every step: after a successful
\* terraform plan the plan step has recorded the checksum of the file
\* terraform wrote, and a terraform apply that follows a successful lookup of
\* the plan file is given that file.
C13_PlanArtifactLocatedConsistently ==
    /\ \A i \in 1..Len(commands) :
          (commands[i].tool = "plan" /\ commands[i].rc \in {0, 2} /\ pc = "exited") =>
              /\ "plan_checksum" \in DOMAIN outputs
              /\ outputs["plan_checksum"] = calculate_checksum(fs[PathIn(working_dir)])
    /\ \A i \in ApplyCommands :
          Exists(PathIn(working_dir)) => commands[i].form = "plan_file"

\* C14: when terraform plan exited with a status other than 0 or 2, the run
\* publishes neither the plan_file nor the plan_checksum output.
C14_FailedPlanPublishesNoArtifact ==
    \A i \in 1..Len(commands) :
        (commands[i].tool = "plan" /\ commands[i].rc \notin {0, 2}) =>
            /\ "plan_file" \notin DOMAIN outputs
            /\ "plan_checksum" \notin DOMAIN outputs

\* The hook with index i of phase ph would run and fail with fail_on_error=true.
BlockingHook(ph, i) ==
    LET h == _get_hooks_for_phase(ph)[i] IN
    /\ _should_run_hook(h, operation, is_rollback)
    /\ h.fail_on_error
    /\ failed(_run_hook(h, ph, i))

\* C8: in a deployment whose pre-init phase has a hook that fails with
\* fail_on_error=true, terraform init is never started and the deployment
\* fails.
C8_BlockingHookAbortsPipeline ==
    (\E i \in 1..Len(_get_hooks_for_phase("pre-init")) : BlockingHook("pre-init", i)) =>
        /\ \A j \in 1..Len(commands) : commands[j].tool # "init"
        /\ (pc = "exited" /\ config_ok /\ ~dry_run) => exit_code # 0

\* Every hook configured for phase ph has a result, or an earlier hook of the
\* phase blocked.
PhaseCompleted(ph) ==
    \A i \in 1..Len(_get_hooks_for_phase(ph)) :
        \E j \in 1..Len(results) :
            /\ results[j].phase = ph
            /\ \/ results[j].name = i
               \/ /\ results[j].name < i
                  /\ failed(results[j])
                  /\ _get_hooks_for_phase(ph)[results[j].name].fail_on_error

\* C9: terraform init starts only after the configured pre-init hooks have
\* completed or blocked, and terraform plan/apply only after the post-init and
\* pre-plan hooks have.
C9_HookPhasesPrecedeSteps ==
    \A j \in 1..Len(commands) :
        /\ commands[j].tool = "init" => PhaseCompleted("pre-init")
        /\ commands[j].tool \in {"plan", "apply"} =>
              PhaseCompleted("post-init") /\ PhaseCompleted("pre-plan")

\* C10: when terraform init exited non-zero, it is the last terraform command
\* of the run (no plan, no apply), and the run has ended with a non-zero exit
\* and a failure_reason output.
C10_InitFailureIsFatal ==
    \A i \in 1..Len(commands) :
        (commands[i].tool = "init" /\ commands[i].rc # 0) =>
            /\ \A j \in 1..Len(commands) : commands[j].tool \notin {"plan", "apply"}
            /\ Len(commands) = i
            /\ pc = "exited"
            /\ exit_code # 0
            /\ "failure_reason" \in DOMAIN outputs

\* C10 witness: terraform init exited non-zero in a plan or apply run.
C10_Witness ==
    /\ operation \in {"plan", "apply"}
    /\ \E i \in 1..Len(commands) : commands[i].tool = "init" /\ commands[i].rc # 0
    /\ pc = "exited"

(***************************************************************************)
(* Properties of TerraformExecutor (checked under SpecExecutor)            *)
(***************************************************************************)
PlanCalled == ex_pc = "done" /\ ex_call = << "plan", PlanFileName >>

\* terraform's exit status in the call that was made
RawExitCode == commands[Len(commands)].rc

\* C16: the PlanResult is a success iff terraform plan exited 0 or 2, and its
\* has_changes is true iff terraform plan exited 2; any other exit status gives
\* a failure with has_changes false.
C16_PlanExitCodeContract ==
    PlanCalled =>
        /\ CommandSuccess(plan_result[1].exit_code) <=> RawExitCode \in {0, 2}
        /\ plan_result[1].has_changes <=> RawExitCode = 2
        /\ RawExitCode \notin {0, 2} =>
              /\ ~CommandSuccess(plan_result[1].exit_code)
              /\ ~plan_result[1].has_changes

\* C16 witness: terraform plan exited 2 and the result is a success with
\* changes.
C16_Witness ==
    /\ PlanCalled
    /\ RawExitCode = 2
    /\ plan_result[1].has_changes

Range(seq) == { seq[k] : k \in 1..Len(seq) }

\* apply was called with a plan file that exists
ApplyCalledWithExistingPlanFile ==
    /\ ex_pc = "done"
    /\ ex_call = << "apply", PlanFileName >>
    /\ Exists(PathInCwd)

\* C17: the command of an apply that was given an existing plan file is
\* terraform apply -input=false -auto-approve <plan file>: it has no -var-file
\* flag, no var-file, and none of the apply or extra arguments.
C17_ApplyWithPlanFileCommand ==
    ApplyCalledWithExistingPlanFile =>
        /\ argv = << "terraform", "apply", "-input=false", "-auto-approve", PlanFileName >>
        /\ \A k \in 1..Len(argv) :
              /\ argv[k] # "-var-file"
              /\ argv[k] \notin Range(resolved_args.var_files)
              /\ argv[k] \notin Range(resolved_args.apply_args)
              /\ argv[k] \notin Range(resolved_args.parsed_extra_args)

\* C17 witness: apply was given an existing plan file by an executor that has
\* var-files, apply arguments and extra arguments.
C17_Witness ==
    /\ ApplyCalledWithExistingPlanFile
    /\ resolved_args.var_files # << >>
    /\ resolved_args.apply_args # << >>
    /\ resolved_args.parsed_extra_args # << >>

\* C18: the plan command is terraform plan -input=false -detailed-exitcode,
\* then -var-file <f> for each resolved var-file in order, then -out <file>,
\* then the configured plan arguments, then the extra arguments, and nothing
\* else.
C18_PlanCommandOrder ==
    PlanCalled =>
        LET fixed      == << "terraform", "plan", "-input=false", "-detailed-exitcode" >>
            var_files  == resolved_args.var_files
            configured == resolved_args.plan_args
            extra      == resolved_args.parsed_extra_args
            out_at     == Len(fixed) + 2 * Len(var_files)
        IN /\ Len(argv) = out_at + 2 + Len(configured) + Len(extra)
           /\ SubSeq(argv, 1, Len(fixed)) = fixed
           /\ \A k \in 1..Len(var_files) :
                 /\ argv[Len(fixed) + 2 * k - 1] = "-var-file"
                 /\ argv[Len(fixed) + 2 * k] = var_files[k]
           /\ argv[out_at + 1] = "-out"
           /\ argv[out_at + 2] = PlanFileName
           /\ SubSeq(argv, out_at + 3, out_at + 2 + Len(configured)) = configured
           /\ SubSeq(argv, Len(argv) - Len(extra) + 1, Len(argv)) = extra

\* C18 witness: a plan command with two var-files, configured plan arguments
\* and extra arguments.
C18_Witness ==
    /\ PlanCalled
    /\ Len(resolved_args.var_files) = 2
    /\ resolved_args.var_files[1] # resolved_args.var_files[2]
    /\ resolved_args.plan_args # << >>
    /\ resolved_args.parsed_extra_args # << >>

(***************************************************************************)
(* Properties of the configuration (checked under SpecConfig)              *)
(***************************************************************************)
ListOf(category, c) == IF category \in PathCategories THEN c.paths ELSE c.args

\* the defaults list of a category: empty when defaults, or the category in
\* defaults, is absent
DefaultsList(cfg, category) ==
    IF cfg.defaults = << >> THEN << >>
    ELSE IF cfg.defaults[1][category] = << >> THEN << >>
    ELSE ListOf(category, cfg.defaults[1][category][1])

\* the environment's own list of a category
OwnList(cfg, environment, category) ==
    LET ec == cfg.environments[environment][category] IN
    IF ec = << >> THEN << >> ELSE ListOf(category, ec[1])

\* the environment omits the category or sets inherit=true for it
Inherits(cfg, environment, category) ==
    LET ec == cfg.environments[environment][category] IN
    ec = << >> \/ ec[1].inherit

\* C19: the list a resolve_* call returns for an environment and a category is
\* the defaults list, included iff the environment omits the category or sets
\* inherit=true for it, followed by the environment's own list, entry by entry.
C19_ResolvedList ==
    (cfg_pc = "resolved" /\ resolved.found) =>
        LET cfg      == config[1]
            expected == (IF Inherits(cfg, resolved.environment, resolved.category)
                         THEN DefaultsList(cfg, resolved.category) ELSE << >>)
                        \o OwnList(cfg, resolved.environment, resolved.category)
        IN /\ Len(resolved.value) = Len(expected)
           /\ \A k \in 1..Len(expected) : resolved.value[k] = expected[k]

\* C19 witness: a category resolved for an environment that inherits it, where
\* the defaults list and the environment's list share an entry and both
\* occurrences are in the result.
C19_Witness ==
    /\ cfg_pc = "resolved"
    /\ resolved.found
    /\ LET cfg == config[1]
           d   == DefaultsList(cfg, resolved.category)
           o   == OwnList(cfg, resolved.environment, resolved.category)
       IN /\ cfg.environments[resolved.environment][resolved.category] # << >>
          /\ d # << >>
          /\ o # << >>
          /\ \E k \in 1..Len(d) : d[k] = o[1]
          /\ Len(resolved.value) = Len(d) + Len(o)

\* default_environment and every entry of production_environments are keys of
\* environments
ReferencesDefined(raw) ==
    /\ raw.default_environment \in DOMAIN raw.environments
    /\ \A i \in 1..Len(raw.production_environments) :
          raw.production_environments[i] \in DOMAIN raw.environments

Mentions(error, phrase) == \E k \in 1..Len(error) : error[k] = phrase

\* C20: a config object is produced only from a document whose
\* default_environment and production_environments are all keys of a
\* non-empty environments map; any other document is rejected with an error
\* that mentions "not defined in environments" and yields no config object.
C20_ValidatedReferences ==
    /\ config # NoConfig =>
          /\ config = << raw_config >>
          /\ ReferencesDefined(raw_config)
          /\ DOMAIN raw_config.environments # {}
    /\ (cfg_pc \notin {"idle", "load"} /\ ~ReferencesDefined(raw_config)) =>
          /\ cfg_pc = "rejected"
          /\ config = NoConfig
          /\ Mentions(config_error, "not defined in environments")

\* C20 witness: a document whose default_environment is defined but one of
\* whose production_environments is not was rejected.
C20_Witness ==
    /\ cfg_pc = "rejected"
    /\ raw_config.default_environment \in DOMAIN raw_config.environments
    /\ ~ReferencesDefined(raw_config)

(***************************************************************************)
(* Properties of artifacts.py (checked under SpecArtifacts and SpecName)   *)
(***************************************************************************)
VerifyCalled == art_last.function = "verify_checksum"

\* the file the last call found at its path has the checksum that was expected
ChecksumMatches ==
    /\ art_last.seen # << >>
    /\ calculate_checksum(art_last.seen[1]) = art_last.expected[1]

\* C21: a call of verify_checksum returns, it never raises, and it returns
\* false whenever no file is at the path or the file's checksum is not the
\* expected one.
C21_VerifyNeverRaises ==
    VerifyCalled =>
        /\ art_last.outcome.status = "returned"
        /\ ~ChecksumMatches => art_last.outcome.value = FALSE

\* the last call verified a path against the checksum recorded for that path
VerifiedAgainstRecorded ==
    /\ VerifyCalled
    /\ art_recorded # NoRecorded
    /\ art_last.path = art_recorded[1].path
    /\ art_last.expected = << art_recorded[1].checksum >>

NameCalled == art_last.function = "generate_artifact_name"

\* C23: the name is "tfplan-", the environment, "-", the first ShaPrefixLen
\* characters of the sha (all of them when the sha is shorter) and ".tfplan",
\* and the call returns for every sha.
C23_ArtifactName ==
    NameCalled =>
        LET environment == art_last.path
            sha         == art_last.expected
            name        == art_last.outcome.value
            kept        == IF Len(sha) < 8 THEN Len(sha) ELSE 8
        IN /\ art_last.outcome.status = "returned"
           /\ Len(name) = 3 + kept + 1
           /\ name[1] = "tfplan-"
           /\ name[2] = environment
           /\ name[3] = "-"
           /\ \A k \in 1..kept : name[3 + k] = sha[k]
           /\ name[Len(name)] = ".tfplan"

\* C23 witness: a name generated from a sha shorter than eight characters.
C23_Witness ==
    /\ NameCalled
    /\ Len(art_last.expected) \in 1..7
    /\ Len(art_last.outcome.value) = 4 + Len(art_last.expected)

(***************************************************************************)
(* Properties of the hook environment (checked under SpecHookEnv)          *)
(***************************************************************************)
BaseKeys ==
    {"TF_BD_PHASE", "TF_BD_ENVIRONMENT", "TF_BD_OPERATION", "TF_BD_IS_ROLLBACK",
     "TF_BD_SHA", "TF_BD_REF", "TF_BD_ACTOR", "TF_BD_PR_NUMBER", "TF_BD_PARAMS",
     "TF_BD_WORKING_DIR", "TF_BD_IS_PRODUCTION"}

\* the keys to_env is to return for the context
ContextKeys ==
    BaseKeys
        \cup (IF context.plan_file # << >> THEN {"TF_BD_PLAN_FILE"} ELSE {})
        \cup (IF context.has_changes # << >> THEN {"TF_BD_HAS_CHANGES"} ELSE {})

BoolString(b) == IF b THEN "true" ELSE "false"

ToEnvCalled == evaluated # << >> /\ evaluated.kind = "to_env"

\* C24: the mapping to_env returns has the eleven base keys, TF_BD_PLAN_FILE
\* iff plan_file is set and TF_BD_HAS_CHANGES iff has_changes is set, and no
\* other key; the booleans are "true" or "false" and the plan file is the
\* context's.
C24_ToEnvKeys ==
    ToEnvCalled =>
        LET env == evaluated.value IN
        /\ Cardinality(BaseKeys) = 11
        /\ DOMAIN env = ContextKeys
        /\ env["TF_BD_IS_ROLLBACK"] = BoolString(context.is_rollback)
        /\ env["TF_BD_IS_PRODUCTION"] = BoolString(context.is_production)
        /\ context.plan_file # << >> => env["TF_BD_PLAN_FILE"] = context.plan_file[1]
        /\ context.has_changes # << >> =>
              env["TF_BD_HAS_CHANGES"] = BoolString(context.has_changes[1])

\* C24 witness: to_env of a context with has_changes set to false and
\* plan_file unset.
C24_Witness ==
    /\ ToEnvCalled
    /\ context.plan_file = << >>
    /\ context.has_changes = << FALSE >>
    /\ "TF_BD_PLAN_FILE" \notin DOMAIN evaluated.value
    /\ evaluated.value["TF_BD_HAS_CHANGES"] = "false"

HookEnvOf(n) == IF hook_envs[n] = << >> THEN << >> ELSE hook_envs[n][1]

\* the env of the n-th hook process: hook.env over the context over the
\* ambient environment, and nothing else
C25_Precedence ==
    \A n \in 1..Len(proc_envs) :
        LET env == proc_envs[n] IN
        /\ DOMAIN env = DOMAIN environ \cup ContextKeys \cup DOMAIN HookEnvOf(n)
        /\ \A k \in DOMAIN env :
              env[k] = IF k \in DOMAIN HookEnvOf(n) THEN HookEnvOf(n)[k]
                       ELSE IF k \in ContextKeys THEN to_env(context)[k]
                       ELSE environ[k]

C25_EnvironUnchanged == environ' = environ

\* C25: every hook process gets the ambient environment overridden by the
\* context's variables overridden by the hook's own env, and os.environ is
\* never changed, so the overrides of one hook do not reach the next.
C25_HookEnvMerge == [] C25_Precedence /\ [][C25_EnvironUnchanged]_vars

\* C25 witness: two hooks were started; the first overrides a context key and
\* sets a key of its own, the second has no env and got neither.
C25_Witness ==
    /\ Len(proc_envs) = 2
    /\ "TF_BD_OPERATION" \in DOMAIN environ
    /\ DOMAIN HookEnvOf(1) = {"TF_BD_OPERATION", "DEPLOY_TOKEN"}
    /\ HookEnvOf(2) = << >>
    /\ "DEPLOY_TOKEN" \notin DOMAIN environ
    /\ proc_envs[1]["TF_BD_OPERATION"] = "hook"
    /\ proc_envs[2]["TF_BD_OPERATION"] = context.operation
    /\ "DEPLOY_TOKEN" \notin DOMAIN proc_envs[2]

(***************************************************************************)
(* Properties of the result predicates (checked under SpecResults)         *)
(***************************************************************************)
ResultEvaluated == evaluated # << >> /\ evaluated.kind = "result"

\* C26: a result is successful iff its exit code is 0 and it did not time
\* out; it is failed iff it is neither successful nor skipped; a skipped
\* result is never failed and no result is both successful and failed.
C26_ResultPredicates ==
    ResultEvaluated =>
        LET r == evaluated.input[1]
            v == evaluated.value
        IN /\ v.success <=> (r.exit_code = 0 /\ ~r.timed_out)
           /\ v.failed <=> (~v.success /\ ~r.skipped)
           /\ r.skipped => ~v.failed
           /\ ~(v.success /\ v.failed)

\* C26 witness: a skipped result with a non-zero exit code was evaluated and
\* is neither successful nor failed.
C26_Witness ==
    /\ ResultEvaluated
    /\ evaluated.input[1].skipped
    /\ evaluated.input[1].exit_code = 1
    /\ ~evaluated.value.success
    /\ ~evaluated.value.failed

BlockingFailureEvaluated == evaluated # << >> /\ evaluated.kind = "has_blocking_failure"

\* a result that is not skipped and whose exit code is not 0 or that timed out
FailedResult(r) == (r.exit_code # 0 \/ r.timed_out) /\ ~r.skipped

OperationCalled == ex_pc = "done"

TfcmtConfigured ==
    /\ gh_context.use_tfcmt
    /\ gh_context.tfcmt_installed
    /\ gh_context.github_token \notin { << >>, << << >> >> }
    /\ gh_context.repo \notin { << >>, << << >> >> }
    /\ gh_context.pr_number \notin { << >>, << 0 >> }

Runs ==
    past_runs \o (IF pc = "exited"
                  THEN << Run(operation, commands, exit_code, outputs, fs) >>
                  ELSE << >>)

\* the content of the plan file the invocation's terraform apply was given
AppliedData(run) ==
    { run.commands[k].data : k \in { j \in 1..Len(run.commands) :
          run.commands[j].tool = "apply" /\ run.commands[j].form = "plan_file" } }

ExitCodes(run) == [k \in 1..Len(run.commands) |-> run.commands[k].rc]

\* terraform init of the invocation succeeded
InitSucceededIn(run) ==
    run.commands # << >> /\ run.commands[1].tool = "init" /\ run.commands[1].rc = 0

\* C29 as stated: once an apply invocation has run terraform apply on the plan
\* file, no later apply invocation runs terraform apply on it again.
C29_PlanFileAppliedOnce ==
    \A i, j \in 1..Len(Runs) :
        (i < j /\ AppliedPlanFile(Runs[i])) => ~AppliedPlanFile(Runs[j])

\* C29, amended: the plan file is not single-use; when an apply invocation has
\* run terraform apply on it, the next apply invocation for the same
\* environment and sha, once its init succeeds, runs terraform apply on the
\* same plan file again.
C29_PlanFileAppliedAgain ==
    \A i \in 1..Len(Runs) :
        (i < Len(Runs) /\ Runs[i].operation = "apply" /\ AppliedPlanFile(Runs[i])
            /\ InitSucceededIn(Runs[i + 1]))
        => /\ AppliedPlanFile(Runs[i + 1])
           /\ AppliedData(Runs[i + 1]) = AppliedData(Runs[i])

\* C29 witness: a plan wrote the plan file and two apply invocations after it
\* applied that file, the first of them successfully.
C29_Witness ==
    /\ Len(Runs) = 3
    /\ Runs[1].operation = "plan"
    /\ Runs[1].exit_code = 0
    /\ AppliedPlanFile(Runs[2])
    /\ Runs[2].exit_code = 0
    /\ AppliedPlanFile(Runs[3])
    /\ AppliedData(Runs[3]) = AppliedData(Runs[2])

\* an apply invocation that got the same exit statuses from terraform as the
\* apply invocation before it ran the same commands and ended the same way
C30_SecondApplyProceedsAsFirst ==
    \A i \in 1..Len(Runs) :
        (i < Len(Runs) /\ Runs[i].operation = "apply"
            /\ ExitCodes(Runs[i + 1]) = ExitCodes(Runs[i]))
        => /\ Runs[i + 1].commands = Runs[i].commands
           /\ Runs[i + 1].exit_code = Runs[i].exit_code
           /\ Runs[i + 1].outputs = Runs[i].outputs
           /\ Runs[i + 1].fs = Runs[i].fs

\* no step of an apply removes or rewrites a plan file
C30_ApplyStepKeepsFiles ==
    pc \in {"apply", "apply_with_plan", "apply_rollback"} => fs' = fs

\* C30: the apply step never deletes or modifies the plan file, whether
\* terraform apply succeeds or fails, and a second apply for the same
\* environment and sha finds the file and proceeds as the first did.
C30_ApplyKeepsPlanFile ==
    [] C30_SecondApplyProceedsAsFirst /\ [][C30_ApplyStepKeepsFiles]_vars

\* C30 witness: terraform apply failed on the plan file, the file is still
\* there, and a second apply was given the same file.
C30_Witness ==
    /\ Len(Runs) = 2
    /\ Runs[1].operation = "apply"
    /\ AppliedPlanFile(Runs[1])
    /\ Runs[1].exit_code = 1
    /\ Exists(PathIn(working_dir))
    /\ fs = Runs[1].fs
    /\ AppliedPlanFile(Runs[2])
    /\ AppliedData(Runs[2]) = AppliedData(Runs[1])

(***************************************************************************)
(* Properties of an apply racing with a writer (checked under              *)
(* SpecConcurrent)                                                         *)
(***************************************************************************)
\* C31: whenever the plan file is rewritten by another process after its
\* checksum was recorded, before or after the apply step's verification,
\* terraform apply is not run on the changed content: every plan file applied
\* has the recorded content.
C31_ChangedPlanNeverApplied ==
    \A k \in 1..Len(commands) :
        (commands[k].tool = "apply" /\ commands[k].form = "plan_file")
            => commands[k].data = art_recorded[1].content

(***************************************************************************)
(* Rollback and the plan file (checked under Spec)                         *)
(***************************************************************************)
\* C32: in a rollback the apply step neither looks up nor uses a plan file:
\* no plan file is verified and every terraform apply is the direct form,
\* also when a plan file for (environment, sha) is in the working directory.
C32_RollbackAppliesDirectly ==
    (is_rollback \/ operation = "rollback") =>
        /\ verified = {}
        /\ pc # "apply_with_plan"
        /\ \A i \in ApplyCommands : commands[i].form = "direct"

(***************************************************************************)
(* Properties of the hook processes (checked under SpecRunHook)            *)
(***************************************************************************)
\* the processes of hook i, started or not
ProcessesOf(i) == { k \in 1..Len(procs) : procs[k].hook = i }

\* the condition of hook i of the phase is met by the context
ConditionMet(i) ==
    << PhaseHooks[i].condition, operation, is_rollback >> \in ConditionMatrix

\* C33: the results match a prefix of the phase's hook list position by
\* position, and so does the list run_phase returns; a hook is executed at
\* most once, in list order, and only when every process started before it has
\* ended and every earlier hook has its result.
C33_ResultsFollowHookList ==
    /\ Len(results) <= Len(PhaseHooks)
    /\ \A i \in 1..Len(results) : results[i].name = i
    /\ rp_pc = "returned" =>
          /\ Len(returned) <= Len(PhaseHooks)
          /\ \A i \in 1..Len(returned) : returned[i].name = i
    /\ \A j, k \in 1..Len(procs) : j < k =>
          /\ procs[j].hook < procs[k].hook
          /\ procs[j].state # "running"
    /\ \A k \in 1..Len(procs) :
          /\ procs[k].hook \in 1..Len(PhaseHooks)
          /\ procs[k].state = "running" => Len(results) = procs[k].hook - 1
          /\ procs[k].state # "running" => Len(results) >= procs[k].hook

\* C33 witness: the second of two hooks is running after the first has ended
\* and has its result.
C33_Witness ==
    /\ Len(procs) = 2
    /\ procs[1] = Process(1, "exited")
    /\ procs[2] = Process(2, "running")
    /\ Len(results) = 1
    /\ results[1].name = 1

\* C34: a hook whose condition is not met has no process; its result is
\* skipped with a reason and not failed, and the phase goes on after it
\* whatever its fail_on_error: run_phase does not return at it unless it is
\* the last hook of the phase.
C34_SkippedHookNeverRuns ==
    \A i \in 1..Len(PhaseHooks) :
        ~ConditionMet(i) =>
            /\ ProcessesOf(i) = {}
            /\ i <= Len(results) =>
                  /\ results[i].skipped
                  /\ results[i].skip_reason # << >>
                  /\ results[i].exit_code = 0
                  /\ ~results[i].timed_out
                  /\ ~failed(results[i])
                  /\ (rp_pc = "returned" /\ Len(returned) = i) => i = Len(PhaseHooks)
                  /\ (i = Len(results) /\ i < Len(PhaseHooks)) =>
                        (rp_pc \in {"loop", "wait"} /\ hook_idx = i + 1)

\* C34 witness: a hook with fail_on_error=true was skipped and the hook after
\* it was executed.
C34_Witness ==
    /\ Len(results) = 2
    /\ ~ConditionMet(1)
    /\ PhaseHooks[1].fail_on_error
    /\ results[1].skipped
    /\ ProcessesOf(2) # {}
    /\ ~results[2].skipped

\* C35: the result of a hook whose process was killed at the timeout has
\* exit_code 124, timed_out=True and a stderr that names the timeout, and is
\* failed, not successful and not skipped.
C35_TimeoutResult ==
    \A k \in 1..Len(procs) :
        procs[k].state = "killed" =>
            LET r == results[procs[k].hook] IN
            /\ r.exit_code = 124
            /\ r.timed_out
            /\ r.stderr = "timed out"
            /\ failed(r)
            /\ ~success(r)
            /\ ~r.skipped

\* C35 witness: a process was killed at the timeout and its hook has a result.
C35_Witness ==
    /\ Len(procs) >= 1
    /\ procs[1].state = "killed"
    /\ Len(results) >= 1
    /\ results[1].timed_out

\* C36: run_phase never raises; a hook whose process could not be started has
\* a result with exit_code 1 and the error message as stderr, and the list
\* run_phase returns holds it.
C36_LaunchErrorBecomesResult ==
    /\ rp_pc # "raised"
    /\ \A k \in 1..Len(procs) :
          procs[k].state = "not started" =>
              LET i == procs[k].hook IN
              /\ i <= Len(results)
              /\ results[i].exit_code = 1
              /\ results[i].stderr = LaunchError.message
              /\ ~results[i].timed_out
              /\ ~results[i].skipped
              /\ rp_pc = "returned" => (i <= Len(returned) /\ returned[i] = results[i])

\* C36 witness: run_phase returned two results, the first for a hook with
\* fail_on_error=false that could not be started.
C36_Witness ==
    /\ rp_pc = "returned"
    /\ Len(returned) = 2
    /\ Len(procs) >= 1
    /\ procs[1] = Process(1, "not started")
    /\ returned[1].exit_code = 1

AllProcessesEnded == \A k \in 1..Len(procs) : procs[k].state # "running"

\* C37 (checked under SpecRunHookFair): every run_phase call returns its
\* result list, with every hook process ended, by exit or by being killed at
\* its timeout.
C37_RunPhaseTerminates == <>(rp_pc = "returned" /\ AllProcessesEnded)

\* C37 witness: run_phase returned after a process that would have run
\* forever was killed at its timeout and a later hook was run.
C37_Witness ==
    /\ rp_pc = "returned"
    /\ AllProcessesEnded
    /\ Len(procs) >= 2
    /\ procs[1].state = "killed"

(***************************************************************************)
(* Properties of the lock cleanup (checked under SpecLock)                 *)
(***************************************************************************)
\* C38: whatever the outcome of the gh api calls, the lock branch of an
\* environment whose lock.json says sticky is never deleted: a successful
\* DELETE is only ever made on a lock known not to be sticky.
C38_StickyLockPreserved ==
    \A k \in 1..Len(lk_calls) :
        (lk_calls[k].method = "DELETE" /\ lk_calls[k].ok) =>
            /\ lk_calls[k].lock # << >>
            /\ lk_calls[k].lock[1].sticky # << TRUE >>

(***************************************************************************)
(* Properties of the argument tokenizer (checked under SpecTokenize)       *)
(***************************************************************************)
TokenizeEvaluated == evaluated # << >> /\ evaluated.kind = "tokenize"

\* the quoting in force just before position i, decided by the quote
\* characters to the left of i: a quote character opens its kind of quoting
\* when none is open, closes it when its own kind is open, and is an ordinary
\* character inside the other kind
RECURSIVE QuoteMode(_, _)
QuoteMode(raw, i) ==
    IF i = 1 THEN "none"
    ELSE LET before == QuoteMode(raw, i - 1)
             c == raw[i - 1]
         IN IF before = "none" /\ c = "'" THEN "single"
            ELSE IF before = "none" /\ c = "\"" THEN "double"
            ELSE IF before = "single" /\ c = "'" THEN "none"
            ELSE IF before = "double" /\ c = "\"" THEN "none"
            ELSE before

\* +1 for an unquoted "[", -1 for an unquoted "]", summed over raw[j..i-1]
RECURSIVE BracketSum(_, _, _)
BracketSum(raw, j, i) ==
    IF j >= i THEN 0
    ELSE (IF QuoteMode(raw, j) # "none" THEN 0
          ELSE IF raw[j] = "[" THEN 1
          ELSE IF raw[j] = "]" THEN -1
          ELSE 0) + BracketSum(raw, j + 1, i)

\* the number of unquoted brackets open just before position i, where a "]"
\* with nothing open closes nothing
OpenBrackets(raw, i) ==
    CHOOSE d \in 0..Len(raw) :
        /\ \E j \in 1..i : d = BracketSum(raw, j, i)
        /\ \A j \in 1..i : d >= BracketSum(raw, j, i)

\* the spaces outside single quotes, double quotes and square brackets
Separators(raw) ==
    { i \in 1..Len(raw) :
        /\ raw[i] = " "
        /\ QuoteMode(raw, i) = "none"
        /\ OpenBrackets(raw, i) = 0 }

\* the positions where a run of non-separator characters begins
TokenStarts(raw) ==
    { i \in (1..Len(raw)) \ Separators(raw) : i = 1 \/ (i - 1) \in Separators(raw) }

\* the last position of the run of non-separator characters that begins at s
TokenEnd(raw, s) ==
    CHOOSE e \in s..Len(raw) :
        /\ \A i \in s..e : i \notin Separators(raw)
        /\ e = Len(raw) \/ (e + 1) \in Separators(raw)

\* C39: tokenize splits its input exactly at the spaces outside single
\* quotes, double quotes and square brackets: its tokens are, in order, the
\* maximal runs of non-separator characters, unchanged; no token is empty and
\* the bracket depth is never below zero.
C39_TokenizeSplitsAtUnquotedSpaces ==
    TokenizeEvaluated =>
        LET raw    == evaluated.input
            tokens == evaluated.value.tokens
            depths == evaluated.value.depths
            starts == TokenStarts(raw)
        IN /\ Len(tokens) = Cardinality(starts)
           /\ \A s \in starts :
                 tokens[Cardinality({ t \in starts : t <= s })]
                     = SubSeq(raw, s, TokenEnd(raw, s))
           /\ \A k \in 1..Len(tokens) : tokens[k] # << >>
           /\ \A n \in 1..Len(raw) : depths[n] >= 0

\* C39 witness: tokenize returned two tokens or more for an input with a
\* space inside quotes or brackets, which does not split, and a space outside
\* them, which does.
C39_Witness ==
    /\ TokenizeEvaluated
    /\ Len(evaluated.value.tokens) >= 2
    /\ \E i \in 1..Len(evaluated.input) :
          evaluated.input[i] = " " /\ i \notin Separators(evaluated.input)
    /\ Separators(evaluated.input) # {}

\* C39 witness for the bracket depth: a "]" met with no bracket open, followed
\* by a space that splits
C39_ClampWitness ==
    /\ TokenizeEvaluated
    /\ evaluated.input = << "]", " ", "a" >>
    /\ evaluated.value.tokens = << << "]" >>, << "a" >> >>

====
